---- MODULE Spec2Model ----
(***************************************************************************)
(* The book-processing pipeline of main_processor.py, with the record      *)
(* store of scraper.py (load_state / save_state), the merge of a scrape    *)
(* into the store, the per-book stage executor (download, OCR, DOCX        *)
(* conversion, copy to the SD card) and the manual reset of                *)
(* update_state.py.                                                        *)
(*                                                                         *)
(* A Python value None, or a dictionary key that is absent, is the string  *)
(* "none".  A path is a record; the file system is a function from the     *)
(* keys of the files that exist to their content.                          *)
(***************************************************************************)
EXTENDS Integers, Sequences, FiniteSets, TLC

\* ---------------------------------------------------------------- bounds
MaxRuns == 2       \* runs of process_books_workflow in one behaviour
MaxTamper == 1     \* changes made to local files by something else
MaxListing == 2    \* entries of one scraped catalog page
MaxPages == 5      \* pages of a PDF given to ocr_to_markdown

\* ------------------------------------------------------ program constants
max_ocr_retries == 3
max_docx_retries == 3

\* a download that is tried once more than the other stages
max_download_retries_OneMore == max_ocr_retries + 1

max_download_retries == 3

None == "none"
\* the book ids that the catalog page can list
Ids == {1, 2}

\* ------------------------------------------------------------------ paths
\* RAW_PDF_BASE_DIR, PROCESSED_DOCS_BASE_DIR and the SD card directories
RAW_PDF_BASE_DIR == "raw_pdf"
PROCESSED_DOCS_BASE_DIR == "processed_docs"
SDCARD_RAW_PDF_DIR == "/sdcard/raw_pdf"
SDCARD_PROCESSED_DOCS_DIR == "/sdcard/processed_docs"

\* get_full_path_for_book: base_dir_root / page_slug / book_id / filename,
\* a relative path (the page slug is the same for every path and is left out)
get_full_path_for_book(base_dir_root, book_id, stem, ext) ==
    [abs |-> FALSE, root |-> base_dir_root, id |-> book_id, stem |-> stem, ext |-> ext]

\* os.path.join(script_dir, p): p itself when p is absolute
JoinScriptDir(p) == IF p.abs THEN p ELSE [p EXCEPT !.abs = TRUE]

\* os.path.abspath(p)
Abspath(p) == [p EXCEPT !.abs = TRUE]

\* the file a path names (the working directory is the script directory)
FileKey(p) == [root |-> p.root, id |-> p.id, stem |-> p.stem, ext |-> p.ext]

\* os.path.exists(p) in the file system f
Exists(f, p) == FileKey(p) \in DOMAIN f

\* f with the file at p holding content c
WriteFile(f, p, c) ==
    [k \in DOMAIN f \cup {FileKey(p)} |-> IF k = FileKey(p) THEN c ELSE f[k]]

\* os.remove(p)
RemoveFile(f, p) == [k \in DOMAIN f \ {FileKey(p)} |-> f[k]]

\* hashlib.sha256 of a content
Sha256(c) ==
    CASE c = "good" -> "sha_good"
      [] c = "partial" -> "sha_partial"
      [] OTHER -> "sha_other"

\* calculate_sha256(filepath): None when the file is not there
calculate_sha256(f, p) == IF Exists(f, p) THEN Sha256(f[FileKey(p)]) ELSE None

\* ------------------------------------------------------- record store file
\* The file processing_state_<slug>.json: absent, a JSON document holding the
\* list of books, or cut short by a write that did not finish.
AbsentFile == [st |-> "absent", books |-> <<>>]
ValidFile(books) == [st |-> "valid", books |-> books]
TornFile == [st |-> "torn", books |-> <<>>]

\* ----------------------------------------------------------------- scrape
\* what the catalog page lists for one <li>: id 0 and "" stand for a part
\* that the page does not give
TitleTexts == {"T1", "T2"}
AuthorTexts == {"", "A1"}
Hrefs == {"h1", "h2"}

\* urljoin(url, pdf_relative_url)
UrlJoin(href) == [base |-> "BASE_URL", ref |-> href]

\* the Romanized slug Gemini gives for a Kannada text
Romanized(text) ==
    CASE text = "T1" -> "t1"
      [] text = "T2" -> "t2"
      [] text = "A1" -> "a1"
      [] OTHER -> ""

\* slugify(kannada_text.encode('ascii', 'ignore').decode('ascii')): every
\* Kannada letter is dropped
AsciiFallback(text) == ""

\* transliterate_kannada_to_english: gemini is "ok" or "error"
transliterate_kannada_to_english(text, gemini) ==
    IF text = "" THEN ""
    ELSE IF gemini = "ok" THEN Romanized(text) ELSE AsciiFallback(text)

\* filter(None, filename_parts): the non-empty slugs, in order
FilenameParts(ts, as) ==
    SelectSeq(IF as /= "" THEN <<ts, as>> ELSE <<ts>>, LAMBDA x : x /= "")

Max(S) == CHOOSE x \in S : \A y \in S : y <= x

\* a map that knows no book
BooksMap_Empty(books) == [i \in {} |-> 0]

\* {book['id']: book for book in books}: for each id the index of the last
\* book that carries it
BooksMap(books) ==
    [i \in {books[k].id : k \in DOMAIN books} |->
        Max({k \in DOMAIN books : books[k].id = i})]

\* the dictionary scrape_books appends for one listed item
ScrapedBook(item, books, gemini) ==
    LET m == BooksMap(books)
        reuse == /\ item.id \in DOMAIN m
                 /\ books[m[item.id]].title_english_slug /= ""
                 /\ books[m[item.id]].author_english_slug /= ""
        ts == IF reuse THEN books[m[item.id]].title_english_slug
              ELSE transliterate_kannada_to_english(item.title, gemini)
        as == IF reuse THEN books[m[item.id]].author_english_slug
              ELSE transliterate_kannada_to_english(item.author, gemini)
        stem == FilenameParts(ts, as)
    IN  [id |-> item.id,
         title_kannada |-> item.title,
         author_kannada |-> item.author,
         title_english_slug |-> ts,
         author_english_slug |-> as,
         pdf_url |-> UrlJoin(item.href),
         local_pdf_path |-> get_full_path_for_book(RAW_PDF_BASE_DIR, item.id, stem, "pdf"),
         local_md_path |-> get_full_path_for_book(PROCESSED_DOCS_BASE_DIR, item.id, stem, "md"),
         local_docx_path |-> get_full_path_for_book(PROCESSED_DOCS_BASE_DIR, item.id, stem, "docx"),
         status |-> "pending",
         download_status |-> None,
         ocr_status |-> None,
         docx_conversion_status |-> None,
         copy_to_sdcard_status |-> None,
         pdf_sha256_hash |-> None,
         error_message |-> None]

\* scrape_books(url, existing_books_map): listing is what the page lists (<<>>
\* when the page cannot be fetched or has no books container), g[k] the
\* outcome of the Gemini calls for the k-th item; an item without title, PDF
\* link or id is skipped
RECURSIVE scrape_from(_, _, _, _)
scrape_from(k, listing, books, g) ==
    IF k > Len(listing) THEN <<>>
    ELSE LET item == listing[k]
             rest == scrape_from(k + 1, listing, books, g)
         IN  IF item.title /= "" /\ item.href /= "" /\ item.id /= 0
             THEN <<ScrapedBook(item, books, g[k])>> \o rest
             ELSE rest

scrape_books(listing, books, g) == scrape_from(1, listing, books, g)

\* ------------------------------------------------------------------ merge
\* an update that puts the scraped dictionary in the place of the record
UpdateExisting_Replace(existing_book, new_book) == new_book

\* existing_book.update({...}) with the six refreshed fields, then the slugs
\* only where the record has none
UpdateExisting(existing_book, new_book) ==
    LET u == [existing_book EXCEPT
                 !.title_kannada = new_book.title_kannada,
                 !.author_kannada = new_book.author_kannada,
                 !.pdf_url = new_book.pdf_url,
                 !.local_pdf_path = new_book.local_pdf_path,
                 !.local_md_path = new_book.local_md_path,
                 !.local_docx_path = new_book.local_docx_path]
        v == IF u.title_english_slug = ""
             THEN [u EXCEPT !.title_english_slug = new_book.title_english_slug]
             ELSE u
    IN  IF v.author_english_slug = ""
        THEN [v EXCEPT !.author_english_slug = new_book.author_english_slug]
        ELSE v

\* a turn of the merge loop that does not enter a new book in the map
MergeOne_MapNotUpdated(s, new_book) ==
    IF new_book.id \in DOMAIN s.map
    THEN [books |-> [s.books EXCEPT ![s.map[new_book.id]] =
                        UpdateExisting(s.books[s.map[new_book.id]], new_book)],
          map |-> s.map]
    ELSE [books |-> Append(s.books, new_book), map |-> s.map]

\* one turn of the loop "for new_book in scraped_books_data": s.books is
\* current_state['books'], s.map is existing_books_map (id -> index)
MergeOne(s, new_book) ==
    IF new_book.id \in DOMAIN s.map
    THEN [books |-> [s.books EXCEPT ![s.map[new_book.id]] =
                        UpdateExisting(s.books[s.map[new_book.id]], new_book)],
          map |-> s.map]
    ELSE [books |-> Append(s.books, new_book),
          map |-> [i \in DOMAIN s.map \cup {new_book.id} |->
                      IF i = new_book.id THEN Len(s.books) + 1 ELSE s.map[i]]]

RECURSIVE MergeLoop(_, _)
MergeLoop(s, scraped) ==
    IF scraped = <<>> THEN s
    ELSE MergeLoop(MergeOne(s, Head(scraped)), Tail(scraped))

\* str(x['id']).zfill(3): the ids are the digit strings "001", "002", ...,
\* which order as their numbers do
SortKey(book) == book.id

\* list.sort(key=...): a stable sort
RECURSIVE InsertSorted(_, _)
InsertSorted(sorted, book) ==
    IF sorted = <<>> THEN <<book>>
    ELSE IF SortKey(sorted[Len(sorted)]) <= SortKey(book)
         THEN Append(sorted, book)
         ELSE Append(InsertSorted(SubSeq(sorted, 1, Len(sorted) - 1), book),
                     sorted[Len(sorted)])

RECURSIVE SortBooks(_)
SortBooks(books) ==
    IF books = <<>> THEN <<>>
    ELSE InsertSorted(SortBooks(SubSeq(books, 1, Len(books) - 1)), books[Len(books)])

\* lines 175-202: the merge of the scraped books into current_state['books']
MergeScraped(books, scraped) ==
    SortBooks(MergeLoop([books |-> books, map |-> BooksMap(books)], scraped).books)

\* --------------------------------------------------------- stage adapters
\* What the network does to one requests.get of a PDF: "ok" streams the whole
\* document, "http_error" fails before any byte is written, "broken_stream"
\* fails (a RequestException) after part of the file is written, "os_error"
\* is an error that is no RequestException (the disk is full, a directory
\* cannot be made).
NetOutcomes == {"ok", "http_error", "broken_stream", "os_error"}

\* a download_pdf that does not remove a file whose hash differs
download_pdf_KeepsCorrupt(book, f, net) ==
    LET local_path == book.local_pdf_path
        expected_hash == book.pdf_sha256_hash
        current_hash == calculate_sha256(f, local_path)
        verified == Exists(f, local_path) /\ expected_hash /= None
                      /\ current_hash = expected_hash
        legacy == Exists(f, local_path) /\ expected_hash = None
        f1 == f
    IN  IF verified
        THEN [ret |-> "True", book |-> book, fs |-> f, fetched |-> FALSE]
        ELSE IF legacy
        THEN [ret |-> "True",
              book |-> [book EXCEPT !.pdf_sha256_hash = current_hash],
              fs |-> f, fetched |-> FALSE]
        ELSE CASE net = "ok" ->
                    [ret |-> "True",
                     book |-> [book EXCEPT !.pdf_sha256_hash = Sha256("good")],
                     fs |-> WriteFile(f1, local_path, "good"), fetched |-> TRUE]
               [] net = "http_error" ->
                    [ret |-> "False", book |-> book, fs |-> f1, fetched |-> TRUE]
               [] net = "broken_stream" ->
                    [ret |-> "False", book |-> book,
                     fs |-> WriteFile(f1, local_path, "partial"), fetched |-> TRUE]
               [] OTHER ->
                    [ret |-> "raise", book |-> book, fs |-> f1, fetched |-> TRUE]

\* a download_pdf that accepts a file without a recorded hash and does not
\* record its hash
download_pdf_LegacyUnrecorded(book, f, net) ==
    LET local_path == book.local_pdf_path
        expected_hash == book.pdf_sha256_hash
        current_hash == calculate_sha256(f, local_path)
        verified == Exists(f, local_path) /\ expected_hash /= None
                      /\ current_hash = expected_hash
        legacy == Exists(f, local_path) /\ expected_hash = None
        f1 == IF Exists(f, local_path) /\ ~verified /\ ~legacy
              THEN RemoveFile(f, local_path) ELSE f
    IN  IF verified
        THEN [ret |-> "True", book |-> book, fs |-> f, fetched |-> FALSE]
        ELSE IF legacy
        THEN [ret |-> "True",
              book |-> book,
              fs |-> f, fetched |-> FALSE]
        ELSE CASE net = "ok" ->
                    [ret |-> "True",
                     book |-> [book EXCEPT !.pdf_sha256_hash = Sha256("good")],
                     fs |-> WriteFile(f1, local_path, "good"), fetched |-> TRUE]
               [] net = "http_error" ->
                    [ret |-> "False", book |-> book, fs |-> f1, fetched |-> TRUE]
               [] net = "broken_stream" ->
                    [ret |-> "False", book |-> book,
                     fs |-> WriteFile(f1, local_path, "partial"), fetched |-> TRUE]
               [] OTHER ->
                    [ret |-> "raise", book |-> book, fs |-> f1, fetched |-> TRUE]

\* a download_pdf that does not record the hash of the file it has fetched
download_pdf_HashUnrecorded(book, f, net) ==
    LET local_path == book.local_pdf_path
        expected_hash == book.pdf_sha256_hash
        current_hash == calculate_sha256(f, local_path)
        verified == Exists(f, local_path) /\ expected_hash /= None
                      /\ current_hash = expected_hash
        legacy == Exists(f, local_path) /\ expected_hash = None
        f1 == IF Exists(f, local_path) /\ ~verified /\ ~legacy
              THEN RemoveFile(f, local_path) ELSE f
    IN  IF verified
        THEN [ret |-> "True", book |-> book, fs |-> f, fetched |-> FALSE]
        ELSE IF legacy
        THEN [ret |-> "True",
              book |-> [book EXCEPT !.pdf_sha256_hash = current_hash],
              fs |-> f, fetched |-> FALSE]
        ELSE CASE net = "ok" ->
                    [ret |-> "True",
                     book |-> book,
                     fs |-> WriteFile(f1, local_path, "good"), fetched |-> TRUE]
               [] net = "http_error" ->
                    [ret |-> "False", book |-> book, fs |-> f1, fetched |-> TRUE]
               [] net = "broken_stream" ->
                    [ret |-> "False", book |-> book,
                     fs |-> WriteFile(f1, local_path, "partial"), fetched |-> TRUE]
               [] OTHER ->
                    [ret |-> "raise", book |-> book, fs |-> f1, fetched |-> TRUE]

\* download_pdf(book_info): ret is TRUE, FALSE or "raise"; book is the
\* dictionary as the call leaves it, fs the file system, fetched whether
\* requests.get was called
download_pdf(book, f, net) ==
    LET local_path == book.local_pdf_path
        expected_hash == book.pdf_sha256_hash
        current_hash == calculate_sha256(f, local_path)
        verified == Exists(f, local_path) /\ expected_hash /= None
                      /\ current_hash = expected_hash
        legacy == Exists(f, local_path) /\ expected_hash = None
        \* a file whose hash differs from the recorded one is removed
        f1 == IF Exists(f, local_path) /\ ~verified /\ ~legacy
              THEN RemoveFile(f, local_path) ELSE f
    IN  IF verified
        THEN [ret |-> "True", book |-> book, fs |-> f, fetched |-> FALSE]
        ELSE IF legacy
        THEN [ret |-> "True",
              book |-> [book EXCEPT !.pdf_sha256_hash = current_hash],
              fs |-> f, fetched |-> FALSE]
        ELSE CASE net = "ok" ->
                    [ret |-> "True",
                     book |-> [book EXCEPT !.pdf_sha256_hash = Sha256("good")],
                     fs |-> WriteFile(f1, local_path, "good"), fetched |-> TRUE]
               [] net = "http_error" ->
                    [ret |-> "False", book |-> book, fs |-> f1, fetched |-> TRUE]
               [] net = "broken_stream" ->
                    [ret |-> "False", book |-> book,
                     fs |-> WriteFile(f1, local_path, "partial"), fetched |-> TRUE]
               [] OTHER ->
                    [ret |-> "raise", book |-> book, fs |-> f1, fetched |-> TRUE]

\* What the OCR service does with one document: "ok" gives the Markdown,
\* "fail" gives none (a job that does not complete, an API error), "precheck"
\* is a PDF that PyPDF2 cannot read, "lost_output" is a Markdown file that is
\* gone again when the call returns, "raise" is an exception out of the call.
OcrOutcomes == {"ok", "fail", "precheck", "lost_output", "raise"}

\* ocr_to_markdown(pdf_path, key, output_md_path): ret is "path" (with the
\* path returned), "none" or "raise"
ocr_to_markdown(pdf_path, output_md_path, f, svc) ==
    IF ~Exists(f, pdf_path)
    THEN [ret |-> "none", path |-> output_md_path, fs |-> f]
    ELSE CASE svc = "ok" ->
                [ret |-> "path", path |-> Abspath(output_md_path),
                 fs |-> WriteFile(f, output_md_path, "text")]
           [] svc = "precheck" ->
                [ret |-> "none", path |-> output_md_path,
                 fs |-> WriteFile(f, output_md_path, "placeholder")]
           [] svc = "lost_output" ->
                [ret |-> "path", path |-> Abspath(output_md_path),
                 fs |-> RemoveFile(f, output_md_path)]
           [] svc = "raise" ->
                [ret |-> "raise", path |-> output_md_path, fs |-> f]
           [] OTHER ->
                [ret |-> "none", path |-> output_md_path, fs |-> f]

\* What pandoc does: "ok" writes the document, "pandoc_error" is a non-zero
\* exit, "pandoc_missing" is the tool not being installed, "lost_output" is
\* exit status 0 with no document on disk, "raise" is an exception out of the
\* call (the output directory cannot be made).
ToolOutcomes == {"ok", "pandoc_error", "pandoc_missing", "lost_output", "raise"}

\* process_markdown_to_docx(md_input_path, docx_output_path): ret is "True",
\* "False" or "raise"
process_markdown_to_docx(md_input_path, docx_output_path, f, tool) ==
    IF ~Exists(f, md_input_path)
    THEN [ret |-> "False", fs |-> f]
    ELSE CASE tool = "ok" ->
                [ret |-> "True", fs |-> WriteFile(f, docx_output_path, "docx")]
           [] tool = "lost_output" ->
                [ret |-> "True", fs |-> RemoveFile(f, docx_output_path)]
           [] tool = "raise" ->
                [ret |-> "raise", fs |-> f]
           [] OTHER ->
                [ret |-> "False", fs |-> f]

\* What one copy to the SD card does: "ok", "cp_error" (cp exits non-zero, a
\* CalledProcessError) or "os_error" (os.makedirs or starting cp fails with
\* an error that is not caught).
CpOutcomes == {"ok", "cp_error", "os_error"}

\* the destination of copy_to_phone_storage: destination_base_dir / page_slug
\* / book_id / basename(source_path)
SdPath(source_path, destination_base_dir, book_id) ==
    [abs |-> TRUE, root |-> destination_base_dir, id |-> book_id,
     stem |-> source_path.stem, ext |-> source_path.ext]

\* copy_to_phone_storage(source_path, destination_base_dir, book_id, page_slug)
copy_to_phone_storage(source_path, destination_base_dir, book_id, f, cp) ==
    IF cp = "os_error"
    THEN [ret |-> "raise", fs |-> f]
    ELSE IF Exists(f, source_path)
    THEN IF cp = "ok"
         THEN [ret |-> "True",
               fs |-> WriteFile(f, SdPath(source_path, destination_base_dir, book_id),
                                f[FileKey(source_path)])]
         ELSE [ret |-> "False", fs |-> f]
    ELSE [ret |-> "False", fs |-> f]

\* ------------------------------------------------------------------ state
VARIABLES
    disk,       \* the record store file
    fs,         \* the other files: local PDFs, Markdown, DOCX, SD card copies
    pc,         \* where process_books_workflow stands; "idle": no process
    ret,        \* where it goes on when the save_state under way returns
    mem,        \* current_state['books'] of the run
    limit,      \* limit_books of the run: <<>> is None, <<n>> is the number n
    queue,      \* books_to_process: indices into mem
    qi,         \* the position of the loop in books_to_process
    attempt,    \* the attempt of the retry loop under way (1..3)
    runs,       \* runs started so far
    tampers,    \* changes made to local files by something else so far
    lastRun,    \* how the last process ended
    invoked,    \* per stage: adapter calls for the book the loop is at
    failures,   \* per stage: those of these calls that did not succeed
    fresh,      \* ids that the merge of this run has inserted
    freshOk,    \* those of them whose turn has ended with every stage called
                \* and no call failed
    scraped,    \* scraped_books_data while the merged books are being saved
    resumed,    \* ids whose OCR was on file as completed when the run before
                \* this one was killed
    skipped,    \* books of the queue that an aborted run has not come to
    written,    \* what the last write of the file that finished has left
    ocr         \* the call of ocr_to_markdown under way, when its steps are
                \* followed one by one (SpecChunks)

vars == <<disk, fs, pc, ret, mem, limit, queue, qi, attempt, runs, tampers,
          lastRun, invoked, failures, fresh, freshOk, scraped, resumed, skipped,
          written, ocr>>

\* the state of process_books_workflow and of the record store file
workflow == <<disk, pc, ret, mem, limit, queue, qi, attempt, runs, tampers,
              lastRun, invoked, failures, fresh, freshOk, scraped, resumed,
              skipped, written>>

Stages == {"download", "ocr", "docx", "copy_md", "copy_docx"}
NoCalls == [s \in Stages |-> 0]
\* limit_books=None: --limit was not given
NoLimit == <<>>
EmptyFs == [k \in {} |-> "none"]
\* no call of ocr_to_markdown is followed step by step
NoOcrCall == [at |-> "none"]

\* no process runs, the record store file is as `file` and the other files
\* are as `files`
InitWorkflow(file, files) ==
    /\ disk = file
    /\ fs = files
    /\ pc = "idle"
    /\ ret = None
    /\ mem = <<>>
    /\ limit = NoLimit
    /\ queue = <<>>
    /\ qi = 0
    /\ attempt = 0
    /\ runs = 0
    /\ tampers = 0
    /\ lastRun = None
    /\ invoked = NoCalls
    /\ failures = NoCalls
    /\ fresh = {}
    /\ freshOk = {}
    /\ scraped = <<>>
    /\ resumed = {}
    /\ skipped = 0
    /\ written = file

InitWith(file, files) ==
    /\ InitWorkflow(file, files)
    /\ ocr = NoOcrCall

\* no process runs, the record store file is as `file`, no other file
InitAt(file) == InitWith(file, EmptyFs)

\* a new installation: no record store file, no other file
Init == InitAt(AbsentFile)

\* the process is gone: nothing of its memory is left
ProcessEnds(how) ==
    /\ pc' = "idle"
    /\ ret' = None
    /\ mem' = <<>>
    /\ limit' = NoLimit
    /\ queue' = <<>>
    /\ qi' = 0
    /\ attempt' = 0
    /\ invoked' = NoCalls
    /\ failures' = NoCalls
    /\ fresh' = {}
    /\ freshOk' = IF how = "finished" THEN freshOk ELSE {}
    /\ scraped' = <<>>
    /\ lastRun' = how
    /\ skipped' = IF how = "aborted" THEN Len(queue) - qi ELSE 0

\* save_state(current_state, path) is entered with the books m: open(path,
\* 'w') empties the file; SaveState below is json.dump and the close
BeginSave(m, continuation) ==
    /\ mem' = m
    /\ disk' = TornFile
    /\ pc' = "save"
    /\ ret' = continuation

\* the book the loop is at
cur == queue[qi]

Counted(c, stage, n) == [c EXCEPT ![stage] = @ + n]

\* the ids whose ocr_status is "completed" in a file
OcrCompletedIn(file) ==
    {file.books[k].id : k \in {j \in DOMAIN file.books :
                                  file.books[j].ocr_status = "completed"}}

\* a start that takes a file that cannot be decoded for an empty store
StartRun_TornAsEmpty(limit_books, rescan_books) ==
    /\ pc = "idle"
    /\ runs < MaxRuns
    /\ runs' = runs + 1
    /\ resumed' = IF lastRun = "killed" THEN OcrCompletedIn(written) ELSE {}
    /\ mem' = disk.books
    /\ limit' = limit_books
    /\ pc' = IF rescan_books \/ disk.books = <<>> THEN "scrape" ELSE "select"
    /\ lastRun' = None
    /\ skipped' = 0
    /\ freshOk' = {}
    /\ UNCHANGED <<disk, fs, tampers, written, ret, queue, qi, attempt, invoked,
                   failures, fresh, scraped>>
    /\ UNCHANGED ocr

\* a start that scrapes in every run
StartRun_AlwaysScrape(limit_books, rescan_books) ==
    /\ pc = "idle"
    /\ runs < MaxRuns
    /\ runs' = runs + 1
    /\ resumed' = IF lastRun = "killed" THEN OcrCompletedIn(written) ELSE {}
    /\ UNCHANGED <<disk, fs, tampers, written>>
    /\ UNCHANGED ocr
    /\ IF disk.st = "torn"
       THEN ProcessEnds("load_error")
       ELSE /\ mem' = disk.books
            /\ limit' = limit_books
            /\ pc' = "scrape"
            /\ lastRun' = None
            /\ skipped' = 0
            /\ freshOk' = {}
            /\ UNCHANGED <<ret, queue, qi, attempt, invoked, failures, fresh, scraped>>

\* lines 152-160 and the branch of line 163: the process starts and loads
\* the record store; json.load raises on a file that is cut short
StartRun(limit_books, rescan_books) ==
    /\ pc = "idle"
    /\ runs < MaxRuns
    /\ runs' = runs + 1
    /\ resumed' = IF lastRun = "killed" THEN OcrCompletedIn(written) ELSE {}
    /\ UNCHANGED <<disk, fs, tampers, written>>
    /\ UNCHANGED ocr
    /\ IF disk.st = "torn"
       THEN ProcessEnds("load_error")
       ELSE /\ mem' = disk.books
            /\ limit' = limit_books
            /\ pc' = IF rescan_books \/ disk.books = <<>> THEN "scrape" ELSE "select"
            /\ lastRun' = None
            /\ skipped' = 0
            /\ freshOk' = {}
            /\ UNCHANGED <<ret, queue, qi, attempt, invoked, failures, fresh, scraped>>

\* a Scrape that keeps the merged books in memory and does not save them
Scrape_NoSave(listing, g) ==
    /\ pc = "scrape"
    /\ LET scraped_books_data == scrape_books(listing, mem, g)
           merged == MergeScraped(mem, scraped_books_data)
       IN  /\ mem' = merged
           /\ pc' = "select"
           /\ fresh' = {merged[k].id : k \in DOMAIN merged}
                          \ {mem[k].id : k \in DOMAIN mem}
    /\ UNCHANGED <<disk, ret, scraped, fs, limit, queue, qi, attempt, runs, tampers,
                   lastRun, invoked, failures, freshOk, resumed, skipped, written>>
    /\ UNCHANGED ocr

\* lines 163-203: scrape, merge, sort, and save_state is entered
Scrape(listing, g) ==
    /\ pc = "scrape"
    /\ LET scraped_books_data == scrape_books(listing, mem, g)
           merged == MergeScraped(mem, scraped_books_data)
       IN  /\ BeginSave(merged, "select")
           /\ scraped' = scraped_books_data
           /\ fresh' = {merged[k].id : k \in DOMAIN merged}
                          \ {mem[k].id : k \in DOMAIN mem}
    /\ UNCHANGED <<fs, limit, queue, qi, attempt, runs, tampers, lastRun, invoked,
                   failures, freshOk, resumed, skipped, written>>
    /\ UNCHANGED ocr

\* a save_state that writes the record of the book the loop is at and keeps
\* the other records as the last write of the file has left them
SaveState_KeepsOtherWrites ==
    /\ pc = "save"
    /\ LET kept == [k \in DOMAIN mem |->
                       IF qi > 0 /\ k /= cur /\ k \in DOMAIN written.books
                       THEN written.books[k] ELSE mem[k]]
       IN  /\ disk' = ValidFile(kept)
           /\ written' = ValidFile(kept)
    /\ pc' = ret
    /\ ret' = None
    /\ scraped' = <<>>
    /\ UNCHANGED <<fs, mem, limit, queue, qi, attempt, runs, tampers, lastRun,
                   invoked, failures, fresh, freshOk, resumed, skipped>>
    /\ UNCHANGED ocr

\* save_state returns: the file holds the books of the run
SaveState ==
    /\ pc = "save"
    /\ disk' = ValidFile(mem)
    /\ written' = ValidFile(mem)
    /\ pc' = ret
    /\ ret' = None
    /\ scraped' = <<>>
    /\ UNCHANGED <<fs, mem, limit, queue, qi, attempt, runs, tampers, lastRun,
                   invoked, failures, fresh, freshOk, resumed, skipped>>
    /\ UNCHANGED ocr

\* a queue of the books that no run has taken up yet
books_to_process_PendingOnly(books, limit_books) ==
    LET all == SelectSeq([k \in DOMAIN books |-> k],
                         LAMBDA k : books[k].status = "pending")
    IN  IF limit_books /= NoLimit /\ limit_books[1] /= 0 /\ limit_books[1] < Len(all)
        THEN SubSeq(all, 1, limit_books[1]) ELSE all

\* lines 207-214: the books whose status is not "completed", in the order of
\* the store, cut by "if limit_books:" to books_to_process[:limit_books]
\* (None and 0 are falsy)
books_to_process(books, limit_books) ==
    LET all == SelectSeq([k \in DOMAIN books |-> k],
                         LAMBDA k : books[k].status /= "completed")
    IN  IF limit_books /= NoLimit /\ limit_books[1] /= 0 /\ limit_books[1] < Len(all)
        THEN SubSeq(all, 1, limit_books[1]) ELSE all

SelectBooks ==
    /\ pc = "select"
    /\ queue' = books_to_process(mem, limit)
    /\ qi' = 1
    /\ pc' = IF queue' = <<>> THEN "summary" ELSE "begin_book"
    \* limit_books is not read again
    /\ limit' = NoLimit
    /\ UNCHANGED <<disk, fs, ret, mem, attempt, runs, tampers, lastRun,
                   invoked, failures, fresh, freshOk, scraped, resumed, skipped, written>>
    /\ UNCHANGED ocr

\* a MarkFailed that leaves the overall status as it is
MarkFailed_StageOnly(book, stage_field, message) ==
    [book EXCEPT ![stage_field] = "failed", !.error_message = message]

\* a MarkFailed that puts the book back to "pending" for the next run
MarkFailed_BackToPending(book, stage_field, message) ==
    [book EXCEPT ![stage_field] = "failed",
                 !.status = "pending",
                 !.error_message = message]

\* lines 253-257, 307-311, 358-362: the stage has used up its attempts
MarkFailed(book, stage_field, message) ==
    [book EXCEPT ![stage_field] = "failed",
                 !.status = "failed",
                 !.error_message = message]

\* a MarkInProgress that puts the stage back to "pending"
MarkInProgress_Pending(book, stage_field) ==
    [book EXCEPT ![stage_field] = "pending", !.status = "in_progress"]

\* lines 234-235, 277-278, 332-333: the stage is entered
MarkInProgress(book, stage_field) ==
    [book EXCEPT ![stage_field] = "in_progress", !.status = "in_progress"]

\* lines 226-228: the stored paths are joined to the script directory, in
\* the dictionary of the book itself
Absolutize(book) ==
    [book EXCEPT !.local_pdf_path = JoinScriptDir(@),
                 !.local_md_path = JoinScriptDir(@),
                 !.local_docx_path = JoinScriptDir(@)]

\* lines 218-236: the turn of the loop begins; the download stage is entered
\* unless download_status is "completed"
BeginBook ==
    /\ pc = "begin_book"
    /\ LET book == Absolutize(mem[cur])
       IN  IF book.download_status /= "completed"
           THEN /\ BeginSave([mem EXCEPT ![cur] =
                                 MarkInProgress(book, "download_status")],
                             "download")
                /\ attempt' = 1
           ELSE /\ mem' = [mem EXCEPT ![cur] = book]
                /\ pc' = "ocr_gate"
                /\ UNCHANGED <<disk, ret, attempt>>
    /\ UNCHANGED <<fs, limit, queue, qi, runs, tampers, lastRun, invoked,
                   failures, fresh, freshOk, scraped, resumed, skipped, written>>
    /\ UNCHANGED ocr

\* lines 240-261: one attempt of the download; an error that download_pdf
\* does not catch ends the process
DownloadAttempt(net) ==
    /\ pc = "download"
    /\ LET r == download_pdf(mem[cur], fs, net)
       IN  /\ fs' = r.fs
           /\ CASE r.ret = "True" ->
                     /\ BeginSave([mem EXCEPT ![cur] =
                                      [r.book EXCEPT !.download_status = "completed"]],
                                  "ocr_gate")
                     /\ attempt' = 0
                     /\ invoked' = Counted(invoked, "download", 1)
                     /\ UNCHANGED <<limit, queue, qi, lastRun, failures, fresh, freshOk, scraped, skipped>>
                [] r.ret = "False" /\ attempt < max_download_retries ->
                     /\ attempt' = attempt + 1
                     /\ mem' = [mem EXCEPT ![cur] = r.book]
                     /\ invoked' = Counted(invoked, "download", 1)
                     /\ failures' = Counted(failures, "download", 1)
                     /\ UNCHANGED <<disk, pc, ret, limit, queue, qi, lastRun, fresh, freshOk, scraped, skipped>>
                [] r.ret = "False" /\ attempt >= max_download_retries ->
                     /\ BeginSave([mem EXCEPT ![cur] =
                                      MarkFailed(r.book, "download_status",
                                                 "PDF download failed after multiple retries.")],
                                  "next_book")
                     /\ attempt' = 0
                     /\ invoked' = Counted(invoked, "download", 1)
                     /\ failures' = Counted(failures, "download", 1)
                     /\ UNCHANGED <<limit, queue, qi, lastRun, fresh, freshOk, scraped, skipped>>
                [] OTHER ->
                     /\ ProcessEnds("aborted")
                     /\ UNCHANGED disk
    /\ UNCHANGED <<runs, tampers, resumed, written>>
    /\ UNCHANGED ocr

\* a PdfIntact that does not look at the hash
PdfIntact_ExistsOnly(book, f) == Exists(f, book.local_pdf_path)

\* lines 267-268: the PDF is there and, when a hash is recorded, has it
PdfIntact(book, f) ==
    /\ Exists(f, book.local_pdf_path)
    /\ \/ book.pdf_sha256_hash = None
       \/ calculate_sha256(f, book.local_pdf_path) = book.pdf_sha256_hash

\* an OcrGate that does not look at ocr_status
OcrGate_Ungated ==
    /\ pc = "ocr_gate"
    /\ LET book == mem[cur]
       IN  IF ~PdfIntact(book, fs)
           THEN /\ BeginSave([mem EXCEPT ![cur] =
                                 MarkFailed(book, "ocr_status",
                                            "PDF file missing or corrupted before OCR.")],
                             "next_book")
                /\ UNCHANGED attempt
           ELSE /\ BeginSave([mem EXCEPT ![cur] = MarkInProgress(book, "ocr_status")],
                             "ocr")
                /\ attempt' = 1
    /\ UNCHANGED <<fs, limit, queue, qi, runs, tampers, lastRun, invoked, failures,
                   fresh, freshOk, scraped, resumed, skipped, written>>
    /\ UNCHANGED ocr

\* lines 264-279: the OCR stage is entered unless ocr_status is "completed"
OcrGate ==
    /\ pc = "ocr_gate"
    /\ LET book == mem[cur]
       IN  IF book.ocr_status = "completed"
           THEN /\ pc' = "docx_gate"
                /\ UNCHANGED <<disk, ret, mem, attempt>>
           ELSE IF ~PdfIntact(book, fs)
           THEN /\ BeginSave([mem EXCEPT ![cur] =
                                 MarkFailed(book, "ocr_status",
                                            "PDF file missing or corrupted before OCR.")],
                             "next_book")
                /\ UNCHANGED attempt
           ELSE /\ BeginSave([mem EXCEPT ![cur] = MarkInProgress(book, "ocr_status")],
                             "ocr")
                /\ attempt' = 1
    /\ UNCHANGED <<fs, limit, queue, qi, runs, tampers, lastRun, invoked, failures,
                   fresh, freshOk, scraped, resumed, skipped, written>>
    /\ UNCHANGED ocr

\* an OcrAttempt that records the text path relative to the script
\* directory, as the scrape computes it, in place of the path returned
OcrAttempt_ComputedPath(svc) ==
    /\ pc = "ocr"
    /\ LET book == mem[cur]
           r == ocr_to_markdown(book.local_pdf_path, book.local_md_path, fs, svc)
           success == r.ret = "path" /\ Exists(r.fs, r.path)
       IN  /\ fs' = r.fs
           /\ invoked' = Counted(invoked, "ocr", 1)
           /\ failures' = IF success THEN failures ELSE Counted(failures, "ocr", 1)
           /\ IF success
              THEN /\ BeginSave([mem EXCEPT ![cur] =
                                    [book EXCEPT !.ocr_status = "completed",
                                                 !.local_md_path =
                                                     get_full_path_for_book(
                                                         PROCESSED_DOCS_BASE_DIR, book.id,
                                                         FilenameParts(book.title_english_slug,
                                                                       book.author_english_slug),
                                                         "md")]],
                                "docx_gate")
                   /\ attempt' = 0
              ELSE IF attempt < max_ocr_retries
              THEN /\ attempt' = attempt + 1
                   /\ UNCHANGED <<disk, pc, ret, mem>>
              ELSE /\ BeginSave([mem EXCEPT ![cur] =
                                    MarkFailed(book, "ocr_status",
                                               "OCR to Markdown failed after multiple retries.")],
                                "next_book")
                   /\ attempt' = 0
    /\ UNCHANGED <<limit, queue, qi, runs, tampers, lastRun, fresh, freshOk, scraped, resumed, skipped,
                   written>>
    /\ UNCHANGED ocr

\* an OcrAttempt that takes the word of the adapter: a path that is returned
\* counts, whether or not the file is there
OcrAttempt_TrustsReport(svc) ==
    /\ pc = "ocr"
    /\ LET book == mem[cur]
           r == ocr_to_markdown(book.local_pdf_path, book.local_md_path, fs, svc)
           success == r.ret = "path"
       IN  /\ fs' = r.fs
           /\ invoked' = Counted(invoked, "ocr", 1)
           /\ failures' = IF success THEN failures ELSE Counted(failures, "ocr", 1)
           /\ IF success
              THEN /\ BeginSave([mem EXCEPT ![cur] =
                                    [book EXCEPT !.ocr_status = "completed",
                                                 !.local_md_path = r.path]],
                                "docx_gate")
                   /\ attempt' = 0
              ELSE IF attempt < max_ocr_retries
              THEN /\ attempt' = attempt + 1
                   /\ UNCHANGED <<disk, pc, ret, mem>>
              ELSE /\ BeginSave([mem EXCEPT ![cur] =
                                    MarkFailed(book, "ocr_status",
                                               "OCR to Markdown failed after multiple retries.")],
                                "next_book")
                   /\ attempt' = 0
    /\ UNCHANGED <<limit, queue, qi, runs, tampers, lastRun, fresh, freshOk, scraped, resumed, skipped,
                   written>>
    /\ UNCHANGED ocr

\* lines 283-315: one attempt of the OCR; the result counts when a path is
\* returned and the file is there
OcrAttempt(svc) ==
    /\ pc = "ocr"
    /\ LET book == mem[cur]
           r == ocr_to_markdown(book.local_pdf_path, book.local_md_path, fs, svc)
           success == r.ret = "path" /\ Exists(r.fs, r.path)
       IN  /\ fs' = r.fs
           /\ invoked' = Counted(invoked, "ocr", 1)
           /\ failures' = IF success THEN failures ELSE Counted(failures, "ocr", 1)
           /\ IF success
              THEN /\ BeginSave([mem EXCEPT ![cur] =
                                    [book EXCEPT !.ocr_status = "completed",
                                                 !.local_md_path = r.path]],
                                "docx_gate")
                   /\ attempt' = 0
              ELSE IF attempt < max_ocr_retries
              THEN /\ attempt' = attempt + 1
                   /\ UNCHANGED <<disk, pc, ret, mem>>
              ELSE /\ BeginSave([mem EXCEPT ![cur] =
                                    MarkFailed(book, "ocr_status",
                                               "OCR to Markdown failed after multiple retries.")],
                                "next_book")
                   /\ attempt' = 0
    /\ UNCHANGED <<limit, queue, qi, runs, tampers, lastRun, fresh, freshOk, scraped, resumed, skipped,
                   written>>
    /\ UNCHANGED ocr

\* lines 318-334: the conversion stage is entered unless
\* docx_conversion_status is "completed"
DocxGate ==
    /\ pc = "docx_gate"
    /\ LET book == mem[cur]
       IN  IF book.docx_conversion_status = "completed"
           THEN /\ pc' = "copy"
                /\ UNCHANGED <<disk, ret, mem, attempt>>
           ELSE IF ~Exists(fs, book.local_md_path)
           THEN /\ BeginSave([mem EXCEPT ![cur] =
                                 MarkFailed(book, "docx_conversion_status",
                                            "Markdown file missing before DOCX conversion.")],
                             "next_book")
                /\ UNCHANGED attempt
           ELSE /\ BeginSave([mem EXCEPT ![cur] =
                                 MarkInProgress(book, "docx_conversion_status")],
                             "docx")
                /\ attempt' = 1
    /\ UNCHANGED <<fs, limit, queue, qi, runs, tampers, lastRun, invoked, failures,
                   fresh, freshOk, scraped, resumed, skipped, written>>
    /\ UNCHANGED ocr

\* lines 338-366: one attempt of the conversion; the result counts when the
\* call returns True and the document is there
DocxAttempt(tool) ==
    /\ pc = "docx"
    /\ LET book == mem[cur]
           r == process_markdown_to_docx(book.local_md_path, book.local_docx_path, fs, tool)
           success == r.ret = "True" /\ Exists(r.fs, book.local_docx_path)
       IN  /\ fs' = r.fs
           /\ invoked' = Counted(invoked, "docx", 1)
           /\ failures' = IF success THEN failures ELSE Counted(failures, "docx", 1)
           /\ IF success
              THEN /\ BeginSave([mem EXCEPT ![cur] =
                                    [book EXCEPT !.docx_conversion_status = "completed"]],
                                "copy")
                   /\ attempt' = 0
              ELSE IF attempt < max_docx_retries
              THEN /\ attempt' = attempt + 1
                   /\ UNCHANGED <<disk, pc, ret, mem>>
              ELSE /\ BeginSave([mem EXCEPT ![cur] =
                                    MarkFailed(book, "docx_conversion_status",
                                               "DOCX conversion failed after multiple retries.")],
                                "next_book")
                   /\ attempt' = 0
    /\ UNCHANGED <<limit, queue, qi, runs, tampers, lastRun, fresh, freshOk, scraped, resumed, skipped,
                   written>>
    /\ UNCHANGED ocr

\* an AfterCopies that records the copy stage and not the overall status
AfterCopies_StageOnly(book, copy_md_success, copy_docx_success) ==
    [book EXCEPT !.copy_to_sdcard_status =
                    IF copy_md_success /\ copy_docx_success
                    THEN "completed" ELSE "failed"]

\* an AfterCopies that records the overall status and not the copy stage
AfterCopies_OverallOnly(book, copy_md_success, copy_docx_success) ==
    [book EXCEPT !.status = IF copy_md_success /\ copy_docx_success
                            THEN "completed" ELSE "failed"]

\* an AfterCopies for which one copy that succeeds is enough
AfterCopies_EitherCopy(book, copy_md_success, copy_docx_success) ==
    IF copy_md_success \/ copy_docx_success
    THEN [book EXCEPT !.copy_to_sdcard_status = "completed",
                      !.status = "completed"]
    ELSE [book EXCEPT !.copy_to_sdcard_status = "failed",
                      !.status = "failed"]

\* an AfterCopies that gives no text to a record whose copies have failed
AfterCopies_NoMessage(book, copy_md_success, copy_docx_success) ==
    IF copy_md_success /\ copy_docx_success
    THEN [book EXCEPT !.copy_to_sdcard_status = "completed",
                      !.status = "completed"]
    ELSE [book EXCEPT !.copy_to_sdcard_status = "failed",
                      !.status = "failed"]

\* lines 378-386: the outcome of the two copies on the record
AfterCopies(book, copy_md_success, copy_docx_success) ==
    IF copy_md_success /\ copy_docx_success
    THEN [book EXCEPT !.copy_to_sdcard_status = "completed",
                      !.status = "completed"]
    ELSE [book EXCEPT !.copy_to_sdcard_status = "failed",
                      !.status = "failed",
                      \* book.get('error_message', "File copying ...")
                      !.error_message = IF @ = None
                                        THEN "File copying to SD card failed."
                                        ELSE @]

\* a Replicate for which a raw copy that fails makes the copy stage fail
Replicate_RawCounts(cp_raw, cp_md, cp_docx) ==
    /\ pc = "copy"
    /\ LET book == mem[cur]
           raw_dest == SdPath(book.local_pdf_path, SDCARD_RAW_PDF_DIR, book.id)
           r0 == IF ~Exists(fs, raw_dest)
                 THEN copy_to_phone_storage(book.local_pdf_path, SDCARD_RAW_PDF_DIR,
                                            book.id, fs, cp_raw)
                 ELSE [ret |-> "skipped", fs |-> fs]
           r1 == copy_to_phone_storage(book.local_md_path, SDCARD_PROCESSED_DOCS_DIR,
                                       book.id, r0.fs, cp_md)
           r2 == copy_to_phone_storage(book.local_docx_path, SDCARD_PROCESSED_DOCS_DIR,
                                       book.id, r1.fs, cp_docx)
           bad(r) == IF r.ret = "True" THEN 0 ELSE 1
       IN  IF r0.ret = "raise" \/ r1.ret = "raise" \/ r2.ret = "raise"
           THEN /\ ProcessEnds("aborted")
                /\ fs' = IF r0.ret = "raise" THEN r0.fs
                         ELSE IF r1.ret = "raise" THEN r1.fs ELSE r2.fs
                /\ UNCHANGED disk
           ELSE /\ BeginSave([mem EXCEPT ![cur] =
                                 AfterCopies(book, r0.ret /= "False" /\ r1.ret = "True",
                                             r2.ret = "True")],
                             "next_book")
                /\ fs' = r2.fs
                /\ invoked' = Counted(Counted(invoked, "copy_md", 1), "copy_docx", 1)
                /\ failures' = Counted(Counted(failures, "copy_md", bad(r1)),
                                       "copy_docx", bad(r2))
                /\ UNCHANGED <<limit, queue, qi, attempt, lastRun, fresh, freshOk, scraped, skipped>>
    /\ UNCHANGED <<runs, tampers, resumed, written>>
    /\ UNCHANGED ocr

\* lines 369-388: the raw PDF is copied when the SD card has none, then the
\* Markdown and the DOCX; an error that copy_to_phone_storage does not catch
\* ends the process
Replicate(cp_raw, cp_md, cp_docx) ==
    /\ pc = "copy"
    /\ LET book == mem[cur]
           raw_dest == SdPath(book.local_pdf_path, SDCARD_RAW_PDF_DIR, book.id)
           r0 == IF ~Exists(fs, raw_dest)
                 THEN copy_to_phone_storage(book.local_pdf_path, SDCARD_RAW_PDF_DIR,
                                            book.id, fs, cp_raw)
                 ELSE [ret |-> "skipped", fs |-> fs]
           r1 == copy_to_phone_storage(book.local_md_path, SDCARD_PROCESSED_DOCS_DIR,
                                       book.id, r0.fs, cp_md)
           r2 == copy_to_phone_storage(book.local_docx_path, SDCARD_PROCESSED_DOCS_DIR,
                                       book.id, r1.fs, cp_docx)
           bad(r) == IF r.ret = "True" THEN 0 ELSE 1
       IN  IF r0.ret = "raise" \/ r1.ret = "raise" \/ r2.ret = "raise"
           THEN /\ ProcessEnds("aborted")
                /\ fs' = IF r0.ret = "raise" THEN r0.fs
                         ELSE IF r1.ret = "raise" THEN r1.fs ELSE r2.fs
                /\ UNCHANGED disk
           ELSE /\ BeginSave([mem EXCEPT ![cur] =
                                 AfterCopies(book, r1.ret = "True", r2.ret = "True")],
                             "next_book")
                /\ fs' = r2.fs
                /\ invoked' = Counted(Counted(invoked, "copy_md", 1), "copy_docx", 1)
                /\ failures' = Counted(Counted(failures, "copy_md", bad(r1)),
                                       "copy_docx", bad(r2))
                /\ UNCHANGED <<limit, queue, qi, attempt, lastRun, fresh, freshOk, scraped, skipped>>
    /\ UNCHANGED <<runs, tampers, resumed, written>>
    /\ UNCHANGED ocr

\* the "continue" statements and the end of the loop body: the next book of
\* books_to_process, or the end of the loop
NextBook ==
    /\ pc = "next_book"
    /\ invoked' = NoCalls
    /\ failures' = NoCalls
    /\ freshOk' = IF /\ mem[cur].id \in fresh
                     /\ failures = NoCalls
                     /\ \A s \in Stages : invoked[s] > 0
                  THEN freshOk \cup {mem[cur].id} ELSE freshOk
    /\ IF qi < Len(queue)
       THEN /\ qi' = qi + 1
            /\ pc' = "begin_book"
       ELSE /\ pc' = "summary"
            /\ UNCHANGED qi
    /\ UNCHANGED <<disk, fs, ret, mem, limit, queue, attempt, runs, tampers, lastRun,
                   fresh, scraped, resumed, skipped, written>>
    /\ UNCHANGED ocr

\* a pending_count that leaves the "in_progress" books out
pending_count_PendingOnly(books) ==
    Cardinality({k \in DOMAIN books : books[k].status = "pending"})

\* lines 397-399: the counts of the final summary, of the books that
\* load_state has read at line 396
processed_count(books) ==
    Cardinality({k \in DOMAIN books : books[k].status = "completed"})

failed_count(books) ==
    Cardinality({k \in DOMAIN books : books[k].status = "failed"})

pending_count(books) ==
    Cardinality({k \in DOMAIN books : books[k].status = "pending"
                                         \/ books[k].status = "in_progress"})

\* a summary after which the process exits with an error when a record is
\* "failed"
Summary_ExitOnFailed ==
    /\ pc = "summary"
    /\ IF disk.st = "torn" \/ \E k \in DOMAIN disk.books : disk.books[k].status = "failed"
       THEN ProcessEnds("load_error")
       ELSE ProcessEnds("finished")
    /\ UNCHANGED <<disk, fs, runs, tampers, resumed, written>>
    /\ UNCHANGED ocr

\* lines 393-411: the loop has ended; load_state reads the file again for
\* the summary (json.load raises on a file that is cut short), the function
\* returns and the process exits
Summary ==
    /\ pc = "summary"
    /\ IF disk.st = "torn" THEN ProcessEnds("load_error") ELSE ProcessEnds("finished")
    /\ UNCHANGED <<disk, fs, runs, tampers, resumed, written>>
    /\ UNCHANGED ocr

\* the process is killed
Crash ==
    /\ pc /= "idle"
    /\ ProcessEnds("killed")
    /\ UNCHANGED <<disk, fs, runs, tampers, resumed, written>>
    /\ UNCHANGED ocr

\* something else removes a local file, or cuts a local PDF short
LocalFiles(f) == {k \in DOMAIN f : k.root \in {RAW_PDF_BASE_DIR, PROCESSED_DOCS_BASE_DIR}}

Tamper ==
    /\ tampers < MaxTamper
    /\ tampers' = tampers + 1
    /\ \E k \in LocalFiles(fs) :
          \/ fs' = [j \in DOMAIN fs \ {k} |-> fs[j]]
          \/ /\ k.ext = "pdf"
             /\ fs[k] = "good"
             /\ fs' = [fs EXCEPT ![k] = "partial"]
    /\ UNCHANGED <<disk, pc, ret, mem, limit, queue, qi, attempt, runs, lastRun,
                   invoked, failures, fresh, freshOk, scraped, resumed, skipped, written>>
    /\ UNCHANGED ocr

\* a reset of the "failed" books only
ResetBook_FailedOnly(book) ==
    IF book.status = "failed"
    THEN [book EXCEPT !.status = "pending",
                      !.download_status = "pending",
                      !.ocr_status = "pending",
                      !.docx_conversion_status = "pending",
                      !.error_message = None]
    ELSE book

\* update_state.py lines 55-63: a failed or in_progress book goes back to
\* pending; copy_to_sdcard_status is not touched
ResetBook(book) ==
    IF book.status = "failed" \/ book.status = "in_progress"
    THEN [book EXCEPT !.status = "pending",
                      !.download_status = "pending",
                      !.ocr_status = "pending",
                      !.docx_conversion_status = "pending",
                      !.error_message = None]
    ELSE book

\* update_state.py reset_statuses, run while no workflow process runs: the
\* file is written only when reset_count > 0; a file that is absent is
\* skipped
ResetStatuses ==
    /\ pc = "idle"
    /\ disk.st = "valid"
    /\ LET reset == [k \in DOMAIN disk.books |-> ResetBook(disk.books[k])]
           reset_count == Cardinality({k \in DOMAIN disk.books :
                                          disk.books[k].status \in {"failed", "in_progress"}})
       IN  IF reset_count > 0
           THEN /\ disk' = ValidFile(reset)
                /\ written' = ValidFile(reset)
           ELSE UNCHANGED <<disk, written>>
    /\ lastRun' = "reset"
    /\ UNCHANGED <<fs, pc, ret, mem, limit, queue, qi, attempt, runs, tampers,
                   invoked, failures, fresh, freshOk, scraped, resumed, skipped>>
    /\ UNCHANGED ocr

\* update_state.py reset_statuses, run while a workflow process runs: no lock
\* is taken on the file (update_state.py lines 47-49 and 65-67, load_state
\* and save_state of scraper.py), so that the reset reads and rewrites the
\* file between two save_state calls of the run.  A reset that finds nothing
\* to reset writes nothing.
ConcurrentReset ==
    /\ pc /= "idle"
    /\ disk.st = "valid"
    /\ LET reset == [k \in DOMAIN disk.books |-> ResetBook(disk.books[k])]
           reset_count == Cardinality({k \in DOMAIN disk.books :
                                          disk.books[k].status \in {"failed", "in_progress"}})
       IN  /\ reset_count > 0
           /\ disk' = ValidFile(reset)
           /\ written' = ValidFile(reset)
    /\ lastRun' = "reset"
    /\ UNCHANGED <<fs, pc, ret, mem, limit, queue, qi, attempt, runs, tampers,
                   invoked, failures, fresh, freshOk, scraped, resumed, skipped>>
    /\ UNCHANGED ocr

\* ------------------------------------------- ocr_to_markdown, step by step
\* SARVAM_AI_PAGE_LIMIT is 500 in ocr_pdf.py; pages are counted here in units
\* of 250, which keeps "above the limit" and the number of chunks
SARVAM_AI_PAGE_LIMIT == 2

\* split_pdf_into_chunks: range(0, total_pages, max_pages_per_chunk)
NumChunks(total_pages, max_pages_per_chunk) ==
    (total_pages + max_pages_per_chunk - 1) \div max_pages_per_chunk

\* f"{base_name}_part_{n}.pdf" in the directory f"{base_name}_chunks" next to
\* the original PDF
ChunkPdfPath(original_pdf_path, n) ==
    [original_pdf_path EXCEPT !.stem = @ \o <<"_chunks", "_part_" \o ToString(n)>>]

\* lines 249-250: the base name of the chunk PDF with ".md", in the directory
\* of output_md_path
ChunkMdPath(output_md_path, chunk_pdf_path) ==
    [output_md_path EXCEPT
        !.stem = SelectSeq(chunk_pdf_path.stem, LAMBDA x : x /= "_chunks")]

\* f"sarvam_output_{job.job_id}.zip" in the directory of output_md_path (one
\* name stands for the job ids)
TempZipPath(output_md_path) ==
    [output_md_path EXCEPT !.stem = <<"sarvam_output">>, !.ext = "zip"]

\* What a job of the OCR service does: "ok" gives a ZIP with a Markdown file,
\* "job_failed" is a job that does not complete or an API error, "no_md" a
\* ZIP without a Markdown file, "bad_zip" a download that zipfile cannot
\* open, "decode_error" a Markdown file that is not UTF-8.
ChunkOutcomes == {"ok", "job_failed", "no_md", "bad_zip", "decode_error"}

\* _ocr_single_pdf_chunk(pdf_path, key, output_md_path): every exception is
\* caught and None returned; the ZIP is removed at lines 191 and 198 only
_ocr_single_pdf_chunk(pdf_path, output_md_path, f, svc) ==
    IF ~Exists(f, pdf_path)
    THEN [ret |-> "none", path |-> output_md_path, fs |-> f]
    ELSE CASE svc = "ok" ->
                [ret |-> "path", path |-> Abspath(output_md_path),
                 fs |-> WriteFile(f, output_md_path, "text")]
           [] svc = "bad_zip" ->
                [ret |-> "none", path |-> output_md_path,
                 fs |-> WriteFile(f, TempZipPath(output_md_path), "zip")]
           [] svc = "decode_error" ->
                [ret |-> "none", path |-> output_md_path,
                 fs |-> WriteFile(WriteFile(f, TempZipPath(output_md_path), "zip"),
                                  output_md_path, "empty")]
           [] OTHER ->
                [ret |-> "none", path |-> output_md_path, fs |-> f]

\* ocr_to_markdown is entered with a PDF that is there and that the pre-check
\* has found to have page_count pages
OcrCall(pdf_path, output_md_path, page_count) ==
    [at |-> "call", pdf_path |-> pdf_path, output_md_path |-> output_md_path,
     page_count |-> page_count, chunk_pdf_paths |-> <<>>,
     all_chunk_md_paths |-> <<>>, i |-> 0, overall_success |-> TRUE,
     ret |-> "none", path |-> output_md_path]

\* ocr_to_markdown returns None, or the path
ReturnsNone == [ocr EXCEPT !.at = "returned", !.ret = "none"]
ReturnsPath(path) == [ocr EXCEPT !.at = "returned", !.ret = "path", !.path = path]

\* lines 239-245 and split_pdf_into_chunks: a PDF above the limit is split;
\* `made` chunks are written before the split ends or before an exception
\* ends it, in which case it returns [] and ocr_to_markdown returns None
SplitPdf(made) ==
    /\ ocr.at = "call"
    /\ ocr.page_count > SARVAM_AI_PAGE_LIMIT
    /\ LET n == NumChunks(ocr.page_count, SARVAM_AI_PAGE_LIMIT)
           paths == [k \in 1..n |-> ChunkPdfPath(ocr.pdf_path, k)]
           RECURSIVE Made(_)
           Made(k) == IF k = 0 THEN fs ELSE WriteFile(Made(k - 1), paths[k], "chunk")
       IN  /\ made \in 0..n
           /\ fs' = Made(made)
           /\ ocr' = IF made = n
                     THEN [ocr EXCEPT !.at = "chunk", !.chunk_pdf_paths = paths, !.i = 1]
                     ELSE ReturnsNone
    /\ UNCHANGED workflow

\* lines 283-285: a PDF within the limit is given to the service as it is
DirectOcr(svc) ==
    /\ ocr.at = "call"
    /\ ocr.page_count <= SARVAM_AI_PAGE_LIMIT
    /\ LET r == _ocr_single_pdf_chunk(ocr.pdf_path, ocr.output_md_path, fs, svc)
       IN  /\ fs' = r.fs
           /\ ocr' = IF r.ret = "path" THEN ReturnsPath(r.path) ELSE ReturnsNone
    /\ UNCHANGED workflow

\* lines 248-260: one turn of the loop over chunk_pdf_paths; a chunk that
\* fails ends the loop
OcrChunk(svc) ==
    /\ ocr.at = "chunk"
    /\ LET chunk_pdf_path == ocr.chunk_pdf_paths[ocr.i]
           chunk_md_output_path == ChunkMdPath(ocr.output_md_path, chunk_pdf_path)
           r == _ocr_single_pdf_chunk(chunk_pdf_path, chunk_md_output_path, fs, svc)
       IN  /\ fs' = r.fs
           /\ ocr' = IF r.ret = "path"
                     THEN [ocr EXCEPT !.all_chunk_md_paths = Append(@, r.path),
                                      !.i = @ + 1,
                                      !.at = IF ocr.i = Len(ocr.chunk_pdf_paths)
                                             THEN "cleanup" ELSE "chunk"]
                     ELSE [ocr EXCEPT !.overall_success = FALSE, !.at = "cleanup"]
    /\ UNCHANGED workflow

\* lines 262-269: the chunk PDFs and their directory are removed; None is
\* returned when a chunk has failed
ChunkCleanup ==
    /\ ocr.at = "cleanup"
    /\ LET RECURSIVE Removed(_)
           Removed(k) == IF k = 0 THEN fs
                         ELSE RemoveFile(Removed(k - 1), ocr.chunk_pdf_paths[k])
       IN  fs' = Removed(Len(ocr.chunk_pdf_paths))
    /\ ocr' = IF ocr.overall_success
              THEN [ocr EXCEPT !.at = "merge", !.i = 1]
              ELSE ReturnsNone
    /\ UNCHANGED workflow

\* lines 272-281: one turn of the loop over all_chunk_md_paths: the text of
\* the chunk goes into output_md_path and the Markdown file of the chunk is
\* removed; after the last turn the path is returned
MergeChunk ==
    /\ ocr.at = "merge"
    /\ LET chunk_md_file == ocr.all_chunk_md_paths[ocr.i]
       IN  fs' = RemoveFile(WriteFile(fs, ocr.output_md_path, "text"), chunk_md_file)
    /\ ocr' = IF ocr.i = Len(ocr.all_chunk_md_paths)
              THEN ReturnsPath(Abspath(ocr.output_md_path))
              ELSE [ocr EXCEPT !.i = @ + 1]
    /\ UNCHANGED workflow

\* --------------------------------------------------------- specifications
\* what the catalog page can list in one scrape
ListingItems == [id : Ids, title : {"T1"}, author : {"A1"}, href : {"h1"}]

RECURSIVE SeqsUpTo(_, _)
SeqsUpTo(S, n) ==
    IF n = 0 THEN {<<>>}
    ELSE LET shorter == SeqsUpTo(S, n - 1)
         IN  shorter \cup {Append(q, x) : q \in {r \in shorter : Len(r) = n - 1}, x \in S}

Listings == SeqsUpTo(ListingItems, MaxListing)
\* --limit is not given, or is 0 or 1
Limits == {NoLimit, <<0>>, <<1>>}

\* Spec: runs of the workflow one after another, kills of the process and
\* manual resets between the runs.  Each adapter call succeeds or reports
\* the failure that the workflow retries.
Next ==
    \/ \E limit_books \in Limits, rescan_books \in BOOLEAN :
          StartRun(limit_books, rescan_books)
    \/ \E listing \in Listings :
          \E g \in [1..Len(listing) -> {"ok"}] : Scrape(listing, g)
    \/ SaveState
    \/ SelectBooks
    \/ BeginBook
    \/ \E net \in {"ok", "http_error"} : DownloadAttempt(net)
    \/ OcrGate
    \/ \E svc \in {"ok", "fail"} : OcrAttempt(svc)
    \/ DocxGate
    \/ \E tool \in {"ok", "pandoc_error"} : DocxAttempt(tool)
    \/ \E cp_md \in {"ok", "cp_error"}, cp_docx \in {"ok", "cp_error"} :
          Replicate("ok", cp_md, cp_docx)
    \/ NextBook
    \/ Summary
    \/ Crash
    \/ ResetStatuses

Spec == Init /\ [][Next]_vars

\* SpecRun: the first run on a new installation, with every outcome of every
\* adapter call, kills of the process, and local files that something else
\* removes or cuts short.
FirstRun(limit_books) ==
    /\ runs = 0
    /\ StartRun(limit_books, FALSE)

NextRun ==
    \/ \E limit_books \in Limits : FirstRun(limit_books)
    \/ \E listing \in Listings :
          \E g \in [1..Len(listing) -> {"ok"}] : Scrape(listing, g)
    \/ SaveState
    \/ SelectBooks
    \/ BeginBook
    \/ \E net \in NetOutcomes : DownloadAttempt(net)
    \/ OcrGate
    \/ \E svc \in OcrOutcomes : OcrAttempt(svc)
    \/ DocxGate
    \/ \E tool \in ToolOutcomes : DocxAttempt(tool)
    \/ \E cp_raw \in CpOutcomes, cp_md \in CpOutcomes, cp_docx \in CpOutcomes :
          Replicate(cp_raw, cp_md, cp_docx)
    \/ NextBook
    \/ Summary
    \/ Crash
    \/ Tamper

SpecRun == Init /\ [][NextRun]_vars

\* SpecMerge: one run with rescan_books on a record store that earlier runs
\* have left, up to the save of the merged books; the catalog page lists
\* titles, authors and links that differ from the stored ones, and a Gemini
\* call can fail.
StoredVariants ==
    {<<"T1", "A1", "ok">>, <<"T1", "", "ok">>, <<"T1", "A1", "error">>,
     <<"T2", "A1", "ok">>}

\* the record of a book as the stages of an earlier run leave it
AsDownloaded(book) ==
    [MarkInProgress(Absolutize(book), "download_status") EXCEPT
        !.download_status = "completed", !.pdf_sha256_hash = Sha256("good")]

AsDownloadFailed(book) ==
    MarkFailed(MarkInProgress(Absolutize(book), "download_status"),
               "download_status", "PDF download failed after multiple retries.")

AsOcrFailed(book) ==
    MarkFailed(MarkInProgress(AsDownloaded(book), "ocr_status"),
               "ocr_status", "OCR to Markdown failed after multiple retries.")

AsCompleted(book) ==
    AfterCopies([AsDownloaded(book) EXCEPT !.ocr_status = "completed",
                                           !.docx_conversion_status = "completed"],
                TRUE, TRUE)

StoredRecords(id) ==
    UNION {LET book == ScrapedBook([id |-> id, title |-> v[1], author |-> v[2],
                                    href |-> "h1"], <<>>, v[3])
           IN  {book, AsDownloadFailed(book), AsOcrFailed(book), AsCompleted(book)}
           : v \in StoredVariants}

MergeStores ==
    {<<>>} \cup {<<a>> : a \in StoredRecords(1)}
           \cup {<<a, b>> : a \in StoredRecords(1),
                            b \in {r \in StoredRecords(2) :
                                      /\ r.status = "completed"
                                      /\ r.title_english_slug = "t1"
                                      /\ r.author_english_slug = "a1"}}

InitMerge == \E store \in MergeStores : InitAt(ValidFile(store))

\* id 0: an <li> whose link has no book id in it, which scrape_books skips
MergeItems ==
    [id : {1}, title : TitleTexts, author : AuthorTexts, href : Hrefs]
        \cup {[id |-> i, title |-> "T1", author |-> "A1", href |-> "h1"] : i \in {0, 2}}

MergeListings == SeqsUpTo(MergeItems, MaxListing)

RescanRun ==
    /\ runs = 0
    /\ StartRun(NoLimit, TRUE)

NextMerge ==
    \/ RescanRun
    \/ \E listing \in MergeListings :
          \E g \in [1..Len(listing) -> {"ok", "error"}] : Scrape(listing, g)
    \/ SaveState
    \/ Crash

SpecMerge == InitMerge /\ [][NextMerge]_vars

\* SpecResume: runs without rescan on a store of one book that earlier runs,
\* kills, a reset and changes of the local files have left; every outcome of
\* every adapter call.
ResumeBook ==
    ScrapedBook([id |-> 1, title |-> "T1", author |-> "A1", href |-> "h1"], <<>>, "ok")

\* the record of a book as a kill during a stage leaves it
AsKilledInDownload(book) == MarkInProgress(Absolutize(book), "download_status")

AsKilledInOcr(book) == MarkInProgress(AsDownloaded(book), "ocr_status")

\* the local PDF of a book: absent, whole, or cut short
PdfStates == {"absent", "good", "partial"}

FilesWithPdf(book, content) ==
    IF content = "absent" THEN EmptyFs
    ELSE WriteFile(EmptyFs, book.local_pdf_path, content)

\* a record and the local PDF that can be there with it: a record no run
\* has taken up has no PDF; a download that has used up its attempts leaves
\* no PDF or one that is cut short; a kill during the download leaves any of
\* them; once a hash is recorded the PDF was whole, and it can have been
\* removed or cut short since
ResumeCases ==
    {<<ResumeBook, "absent">>}
        \cup {<<AsKilledInDownload(ResumeBook), c>> : c \in PdfStates}
        \cup {<<AsDownloadFailed(ResumeBook), c>> : c \in {"absent", "partial"}}
        \cup {<<ResetBook(AsKilledInDownload(ResumeBook)), c>> : c \in PdfStates}
        \cup {<<ResetBook(AsOcrFailed(ResumeBook)), c>> : c \in PdfStates}
        \cup {<<AsOcrFailed(ResumeBook), c>> : c \in PdfStates}
        \cup {<<AsKilledInOcr(ResumeBook), c>> : c \in PdfStates}

InitResume ==
    \E case \in ResumeCases :
        InitWith(ValidFile(<<case[1]>>), FilesWithPdf(case[1], case[2]))

ResumeRun == StartRun(NoLimit, FALSE)

NextResume ==
    \/ ResumeRun
    \/ SaveState
    \/ SelectBooks
    \/ BeginBook
    \/ \E net \in NetOutcomes : DownloadAttempt(net)
    \/ OcrGate
    \/ \E svc \in OcrOutcomes : OcrAttempt(svc)
    \/ DocxGate
    \/ \E tool \in ToolOutcomes : DocxAttempt(tool)
    \/ \E cp_raw \in CpOutcomes, cp_md \in CpOutcomes, cp_docx \in CpOutcomes :
          Replicate(cp_raw, cp_md, cp_docx)
    \/ NextBook
    \/ Summary
    \/ Crash

SpecResume == InitResume /\ [][NextResume]_vars

\* SpecRace: the first run on a new installation, while reset_statuses is run
\* any number of times next to it.  Each adapter call succeeds or reports the
\* failure that the workflow retries.
NextRace ==
    \/ \E limit_books \in Limits : FirstRun(limit_books)
    \/ \E listing \in Listings :
          \E g \in [1..Len(listing) -> {"ok"}] : Scrape(listing, g)
    \/ SaveState
    \/ SelectBooks
    \/ BeginBook
    \/ \E net \in {"ok", "http_error"} : DownloadAttempt(net)
    \/ OcrGate
    \/ \E svc \in {"ok", "fail"} : OcrAttempt(svc)
    \/ DocxGate
    \/ \E tool \in {"ok", "pandoc_error"} : DocxAttempt(tool)
    \/ \E cp_md \in {"ok", "cp_error"}, cp_docx \in {"ok", "cp_error"} :
          Replicate("ok", cp_md, cp_docx)
    \/ NextBook
    \/ Summary
    \/ ConcurrentReset

SpecRace == Init /\ [][NextRace]_vars

\* SpecChunks: one call of ocr_to_markdown, followed step by step, for the
\* PDF of a book that is there and passes the pre-check, with one to MaxPages
\* pages, with or without a Markdown file that an earlier attempt has left;
\* every outcome of every job of the OCR service, and a split that ends with
\* an exception after any number of chunks.
InitChunks ==
    \E page_count \in 1..MaxPages, old \in {"absent", "placeholder"} :
        LET book == Absolutize(ResumeBook)
            files == FilesWithPdf(book, "good")
        IN  /\ InitWorkflow(ValidFile(<<AsKilledInOcr(ResumeBook)>>),
                            IF old = "absent" THEN files
                            ELSE WriteFile(files, book.local_md_path, old))
            /\ ocr = OcrCall(book.local_pdf_path, book.local_md_path, page_count)

NextChunks ==
    \/ \E made \in 0..MaxPages : SplitPdf(made)
    \/ \E svc \in ChunkOutcomes : DirectOcr(svc)
    \/ \E svc \in ChunkOutcomes : OcrChunk(svc)
    \/ ChunkCleanup
    \/ MergeChunk

SpecChunks == InitChunks /\ [][NextChunks]_vars

\* SpecLive: the first run on a new installation, in which every adapter
\* call returns, with success or with any of its failures, and the process
\* is not killed.  The process goes on to its next step as long as it has
\* one (weak fairness of the steps of the run): nothing but a call that does
\* not return or a kill stops a sequential program.
RunSteps ==
    \/ \E listing \in Listings :
          \E g \in [1..Len(listing) -> {"ok"}] : Scrape(listing, g)
    \/ SaveState
    \/ SelectBooks
    \/ BeginBook
    \/ \E net \in NetOutcomes \ {"os_error"} : DownloadAttempt(net)
    \/ OcrGate
    \/ \E svc \in OcrOutcomes \ {"raise"} : OcrAttempt(svc)
    \/ DocxGate
    \/ \E tool \in ToolOutcomes \ {"raise"} : DocxAttempt(tool)
    \/ \E cp_raw \in CpOutcomes \ {"os_error"}, cp_md \in CpOutcomes \ {"os_error"},
             cp_docx \in CpOutcomes \ {"os_error"} :
          Replicate(cp_raw, cp_md, cp_docx)
    \/ NextBook
    \/ Summary

NextLive ==
    \/ \E limit_books \in Limits : FirstRun(limit_books)
    \/ RunSteps

SpecLive == Init /\ [][NextLive]_vars /\ WF_vars(RunSteps)

\* ----------------------------------------------------------------- claims
\* the turn of the book the loop is at has ended: its last save_state is
\* under way or done, and the loop goes to the next book
TurnOver == pc = "next_book" \/ (pc = "save" /\ ret = "next_book")

StageField(s) ==
    CASE s = "download" -> "download_status"
      [] s = "ocr" -> "ocr_status"
      [] s = "docx" -> "docx_conversion_status"
      [] OTHER -> "copy_to_sdcard_status"

AllCompleted(book) ==
    /\ book.status = "completed"
    /\ book.download_status = "completed"
    /\ book.ocr_status = "completed"
    /\ book.docx_conversion_status = "completed"
    /\ book.copy_to_sdcard_status = "completed"

\* C1 (full success path): when a run has finished, every book that the run
\* inserted and for which the download, the OCR, the conversion and both
\* copies were called and none of the calls failed is in the record store
\* file with the overall status and all four stage statuses "completed".
C1_FullSuccess ==
    (pc = "idle" /\ lastRun = "finished") =>
        \A i \in freshOk :
            \E k \in DOMAIN disk.books :
                disk.books[k].id = i /\ AllCompleted(disk.books[k])

C1_Witness == pc = "idle" /\ lastRun = "finished" /\ freshOk /= {}

\* C3 (retry exhaustion): when the turn of a book has ended and every call
\* of the download, OCR or conversion adapter made for it has failed, the
\* adapter was called exactly three times, the stage and the overall status
\* are "failed" with an error message; once the save has returned the file
\* holds this, and the loop can go on to the next book of the queue.
C3_RetryExhaustion ==
    \A s \in {"download", "ocr", "docx"} :
        (TurnOver /\ invoked[s] > 0 /\ failures[s] = invoked[s]) =>
            /\ invoked[s] = 3
            /\ mem[cur][StageField(s)] = "failed"
            /\ mem[cur].status = "failed"
            /\ mem[cur].error_message /= None
            /\ pc = "next_book" =>
                  /\ disk = ValidFile(mem)
                  /\ qi < Len(queue) => ENABLED (NextBook /\ pc' = "begin_book")

C3_Witness ==
    /\ pc = "next_book"
    /\ qi < Len(queue)
    /\ invoked["docx"] = 3
    /\ failures["docx"] = 3

\* the raw PDF of a book is missing, or its hash is not the recorded one
RawMissingOrChanged(book) ==
    \/ ~Exists(fs, book.local_pdf_path)
    \/ calculate_sha256(fs, book.local_pdf_path) /= book.pdf_sha256_hash

\* the intermediate text of a book is missing
TextMissing(book) == ~Exists(fs, book.local_md_path)

\* the stage s was refused at its gate: no call of its adapter, the stage and
\* the overall status "failed" with an error message, the save entered and
\* the loop bound for the next book
Refused(s) ==
    /\ pc = "save"
    /\ ret = "next_book"
    /\ invoked[s] = 0
    /\ mem[cur][StageField(s)] = "failed"
    /\ mem[cur].status = "failed"
    /\ mem[cur].error_message /= None

C4_GateStep ==
    /\ ( /\ pc = "ocr_gate"
         /\ mem[cur].ocr_status /= "completed"
         /\ RawMissingOrChanged(mem[cur])
         /\ pc' \notin {"ocr_gate", "idle"} ) => Refused("ocr")'
    /\ ( /\ pc = "docx_gate"
         /\ mem[cur].docx_conversion_status /= "completed"
         /\ TextMissing(mem[cur])
         /\ pc' \notin {"docx_gate", "idle"} ) => Refused("docx")'

C4_Persisted ==
    \A s \in {"ocr", "docx"} :
        (pc = "next_book" /\ mem[cur][StageField(s)] = "failed" /\ invoked[s] = 0) =>
            /\ disk = ValidFile(mem)
            /\ disk.books[cur].status = "failed"
            /\ qi < Len(queue) => ENABLED (NextBook /\ qi' = qi + 1)

\* C4 (precondition gate): when the loop comes to the OCR stage of a book and
\* the raw PDF is missing or its hash is not the recorded one, or to the
\* conversion stage and the Markdown is missing, the step of the workflow
\* makes no call of the stage's adapter and marks the stage and the book
\* "failed" with an error message; the save that follows leaves this in the
\* file and the loop goes on to the next book.
C4_PreconditionGate == [][C4_GateStep]_vars /\ []C4_Persisted

C4_Witness ==
    /\ pc = "next_book"
    /\ qi < Len(queue)
    /\ invoked["download"] = 1
    /\ invoked["ocr"] = 0
    /\ mem[cur].ocr_status = "failed"
    /\ Exists(fs, mem[cur].local_pdf_path)
    /\ disk = ValidFile(mem)

\* C5 (partial replication): when the two copies of a book have returned,
\* both were attempted; the copy stage and the book are "completed" exactly
\* when both succeeded and "failed" otherwise; and each artifact whose copy
\* succeeded is on the SD card.
C5_PartialReplication ==
    (TurnOver /\ invoked["copy_md"] + invoked["copy_docx"] > 0) =>
        LET book == mem[cur]
            md_ok == failures["copy_md"] = 0
            docx_ok == failures["copy_docx"] = 0
        IN  /\ invoked["copy_md"] = 1
            /\ invoked["copy_docx"] = 1
            /\ (md_ok /\ docx_ok) =>
                  book.copy_to_sdcard_status = "completed" /\ book.status = "completed"
            /\ ~(md_ok /\ docx_ok) =>
                  book.copy_to_sdcard_status = "failed" /\ book.status = "failed"
            /\ md_ok => Exists(fs, SdPath(book.local_md_path,
                                          SDCARD_PROCESSED_DOCS_DIR, book.id))
            /\ docx_ok => Exists(fs, SdPath(book.local_docx_path,
                                            SDCARD_PROCESSED_DOCS_DIR, book.id))

C5_Witness ==
    /\ pc = "next_book"
    /\ invoked["copy_md"] = 1
    /\ failures["copy_md"] = 0
    /\ failures["copy_docx"] = 1
    /\ mem[cur].status = "failed"
    /\ Exists(fs, SdPath(mem[cur].local_md_path, SDCARD_PROCESSED_DOCS_DIR, mem[cur].id))
    /\ ~Exists(fs, SdPath(mem[cur].local_docx_path, SDCARD_PROCESSED_DOCS_DIR, mem[cur].id))

\* C2 (resumability): a run started after a kill, on a store whose last
\* finished write holds ocr_status "completed" for a book, loads the store
\* and, when it comes to that book, calls neither the download nor the OCR
\* adapter: it resumes at the conversion stage.
C2_Resumability ==
    resumed /= {} =>
        /\ lastRun /= "load_error"
        /\ (pc \notin {"idle", "scrape", "select", "summary"}
               /\ ~(pc = "save" /\ ret = "select")
               /\ mem[cur].id \in resumed) =>
              /\ pc \notin {"download", "ocr"}
              /\ invoked["download"] = 0
              /\ invoked["ocr"] = 0

\* the part of C2 that is about the stages: what a run that did load the
\* store does with a book whose OCR was persisted as completed
C2_StagesSkipped ==
    (resumed /= {} /\ pc \notin {"idle", "scrape", "select", "summary"}
        /\ ~(pc = "save" /\ ret = "select") /\ mem[cur].id \in resumed) =>
            /\ pc \notin {"download", "ocr"}
            /\ invoked["download"] = 0
            /\ invoked["ocr"] = 0

\* C9 (crash-safe persistence): when no process runs, the record store file
\* holds what the last write that finished has left: a kill during a write
\* leaves the previous or the new complete content.
C9_CrashSafe == pc = "idle" => disk = written

\* C10 (failure isolation): a run that has come to a book comes to every
\* later book of its queue: no run ends with books of the queue left out
\* because a call for an earlier book went wrong.
C10_FailureIsolation == skipped = 0

\* the merged books are in memory and their save is under way; written still
\* is the store that the run has loaded
Merged == pc = "save" /\ ret = "select"

IdsOf(books) == {books[k].id : k \in DOMAIN books}

\* C6 (idempotent merge): merging the scraped list that has just been merged
\* into the store a second time gives the same store: no record is added
\* and no field of a record changes.
C6_IdempotentMerge == Merged => MergeScraped(mem, scraped) = mem

C6_Witness ==
    /\ Merged
    /\ Len(scraped) = 2
    /\ written.books /= <<>>
    /\ Len(mem) = Len(written.books) + 1
    /\ mem[1] /= written.books[1]

UniqueIds(books) ==
    \A j \in DOMAIN books, k \in DOMAIN books : books[j].id = books[k].id => j = k

\* C7 (unique ids): in every state, after any runs, rescans, kills and
\* resets, no two records of the record store file, and no two of the books
\* a run holds in memory, have the same id.
C7_UniqueIds == UniqueIds(disk.books) /\ UniqueIds(mem)

C7_Witness ==
    /\ Merged
    /\ Len(scraped) = 2
    /\ scraped[1].id = scraped[2].id
    /\ Len(written.books) = 1
    /\ written.books[1].download_status = "pending"
    /\ Len(mem) = 1

\* what the merge must leave alone in a record that exists
FrameFields ==
    {"id", "status", "download_status", "ocr_status", "docx_conversion_status",
     "copy_to_sdcard_status", "pdf_sha256_hash", "error_message"}

Preserved(old, new) ==
    /\ \A field \in FrameFields : new[field] = old[field]
    /\ old.title_english_slug /= "" => new.title_english_slug = old.title_english_slug
    /\ old.author_english_slug /= "" => new.author_english_slug = old.author_english_slug

\* C8 (merge preserves history): after the merge every record of the loaded
\* store is there once, with its overall status, stage statuses, hash and
\* error message unchanged and its non-empty slugs unchanged; every scraped
\* id is in the store, and a record whose id is new has the status "pending".
C8_MergePreservesHistory ==
    Merged =>
        /\ \A k \in DOMAIN written.books :
              /\ Cardinality({j \in DOMAIN mem : mem[j].id = written.books[k].id}) = 1
              /\ \A j \in DOMAIN mem :
                    mem[j].id = written.books[k].id => Preserved(written.books[k], mem[j])
        /\ IdsOf(mem) = IdsOf(written.books) \cup IdsOf(scraped)
        /\ \A j \in DOMAIN mem :
              mem[j].id \notin IdsOf(written.books) => mem[j].status = "pending"

C8_Witness ==
    /\ Merged
    /\ Len(written.books) = 1
    /\ Len(mem) = 2
    /\ written.books[1].status = "completed"
    /\ written.books[1].title_english_slug = "t1"
    /\ mem[1].title_kannada = "T2"
    /\ mem[1].local_pdf_path /= written.books[1].local_pdf_path
    /\ mem[2].status = "pending"

StageFields ==
    {"download_status", "ocr_status", "docx_conversion_status", "copy_to_sdcard_status"}

\* C11 (completed iff all stages completed): in every state of the record
\* store file, a record has the overall status "completed" exactly when its
\* four stage statuses are all "completed".
C11_CompletedIffAllStages ==
    \A k \in DOMAIN disk.books :
        disk.books[k].status = "completed"
            <=> \A field \in StageFields : disk.books[k][field] = "completed"

C11_Witness ==
    /\ pc = "idle"
    /\ lastRun = "reset"
    /\ Len(disk.books) = 2
    /\ disk.books[1].status = "completed"
    /\ disk.books[2].status = "pending"
    /\ disk.books[2].copy_to_sdcard_status = "failed"

\* C12 (failed iff a stage failed): in every state of the record store
\* file, a record has the overall status "failed" exactly when at least one
\* of its four stage statuses is "failed".
C12_FailedIffStageFailed ==
    \A k \in DOMAIN disk.books :
        disk.books[k].status = "failed"
            <=> \E field \in StageFields : disk.books[k][field] = "failed"

\* a step calls the adapter of stage s for the book the loop is at
Calls(s) == invoked'[s] > invoked[s]

\* every stage status that is "completed" in old is "completed" in the
\* record of the same id in new
CompletedKept(old, new) ==
    \A k \in DOMAIN old, j \in DOMAIN new :
        old[k].id = new[j].id =>
            \A field \in StageFields :
                old[k][field] = "completed" => new[j][field] = "completed"

C13_Step ==
    /\ \A s \in Stages :
          Calls(s) => /\ written.books[cur][StageField(s)] /= "completed"
                      /\ mem[cur][StageField(s)] /= "completed"
    /\ (pc /= "idle" \/ pc' /= "idle") =>
          /\ CompletedKept(written.books, written'.books)
          /\ CompletedKept(mem, mem')

\* C13 (stage gating): no step of a run calls the adapter of a stage for a
\* book whose status for that stage is "completed" in the file (or in the
\* memory of the run), and no step of a run, with or without rescan, changes
\* a stage status that is "completed".
C13_StageGating == [][C13_Step]_vars

C13_Witness ==
    /\ runs = 2
    /\ pc = "ocr"
    /\ invoked["download"] = 0
    /\ invoked["ocr"] = 1
    /\ written.books[cur].download_status = "completed"
    /\ written.books[cur].ocr_status = "in_progress"

\* a step of a run (not a reset, which is made while no process runs)
RunStep == pc /= "idle" \/ pc' /= "idle"

\* pending (or no status yet) < in_progress < completed, failed
Rank(status) ==
    CASE status = "completed" \/ status = "failed" -> 2
      [] status = "in_progress" -> 1
      [] OTHER -> 0

\* C14 (forward-only status), as stated: in a step of a run a stage status
\* that changes moves forward along pending -> in_progress -> (completed |
\* failed); it never leaves "failed" or "completed" for "in_progress" or
\* "pending".
C14_ForwardOnly ==
    [][RunStep =>
          \A k \in DOMAIN mem, j \in DOMAIN mem' :
              mem[k].id = mem'[j].id =>
                  \A field \in StageFields :
                      mem'[j][field] /= mem[k][field] =>
                          Rank(mem'[j][field]) > Rank(mem[k][field])]_vars

\* C14 (forward-only status), amended: in a step of a run a stage status
\* that is "completed" does not change, and a status that changes becomes
\* "in_progress", "completed" or "failed", never "pending"; download, OCR
\* and conversion become "completed" only from "in_progress", and the copy
\* stage is never "in_progress".  A stage that an earlier run has left
\* "failed" does go back to "in_progress" when a run retries the book.
C14_ForwardOnlyAmended ==
    [][RunStep =>
          \A k \in DOMAIN mem, j \in DOMAIN mem' :
              mem[k].id = mem'[j].id =>
                  \A field \in StageFields :
                      LET old == mem[k][field]
                          new == mem'[j][field]
                      IN  new /= old =>
                            /\ old /= "completed"
                            /\ new \in {"in_progress", "completed", "failed"}
                            /\ field = "copy_to_sdcard_status" => new /= "in_progress"
                            /\ (field /= "copy_to_sdcard_status" /\ new = "completed")
                                  => old = "in_progress"]_vars

C14_Witness ==
    /\ pc = "save"
    /\ ret = "download"
    /\ written.books[cur].download_status = "failed"
    /\ mem[cur].download_status = "in_progress"

\* the indices of the records that are not "completed", in store order
NotCompleted(books) ==
    SelectSeq([k \in DOMAIN books |-> k], LAMBDA k : books[k].status /= "completed")

\* the first n of them, or all when there are fewer
FirstN(q, n) == IF n < Len(q) THEN SubSeq(q, 1, n) ELSE q

\* the work queue of the claim: all of them when no limit is given, the
\* first N with a limit N >= 0
ClaimedQueue(books, limit_books) ==
    IF limit_books = NoLimit THEN NotCompleted(books)
    ELSE FirstN(NotCompleted(books), limit_books[1])

InQueue(k) == \E n \in DOMAIN queue : queue[n] = k

C15_Step ==
    /\ (pc = "select" /\ pc' \in {"begin_book", "summary"}) =>
          queue' = ClaimedQueue(mem, limit)
    /\ (pc \in {"begin_book", "download", "ocr_gate", "ocr", "docx_gate", "docx",
                 "copy", "next_book"} /\ pc' /= "idle") =>
          /\ InQueue(cur)
          /\ queue' = queue
          /\ qi' \in {qi, qi + 1}
          /\ \A k \in DOMAIN mem : ~InQueue(k) => mem'[k] = mem[k]

\* C15 (work queue and limit): the queue a run selects is the records that
\* are not "completed", in store order, cut to the first N when a limit N >= 0
\* is given; the loop goes through the queue in order, and no step of the
\* loop changes a record outside the queue.
C15_QueueAndLimit == [][C15_Step]_vars

\* the same with a limit of 0 left aside
C15_PositiveLimit ==
    [][limit /= <<0>> => C15_Step]_vars

\* C16 (environment error): a conversion attempt that finds the converter
\* tool not installed, for a Markdown file that is there, ends the run as a
\* fatal error: it is not counted as a failed attempt of the book and the
\* loop does not go on.
C16_MissingToolIsFatal ==
    [][(DocxAttempt("pandoc_missing") /\ Exists(fs, mem[cur].local_md_path))
          => (pc' = "idle" /\ lastRun' = "aborted")]_vars

\* a step that starts a run
Starts == pc = "idle" /\ runs' = runs + 1

C17_Step ==
    /\ (Starts /\ disk.st = "absent") =>
          /\ mem' = <<>>
          /\ pc' = "scrape"
          /\ lastRun' /= "load_error"
    /\ (Starts /\ disk.st = "torn") =>
          /\ pc' = "idle"
          /\ lastRun' = "load_error"
          /\ disk' = disk
          /\ fs' = fs
          /\ invoked' = NoCalls
          /\ scraped' = <<>>

\* C17 (record store load): a run that finds no record store file starts
\* with the empty record set and goes on to the scrape; a run that finds a
\* file that cannot be decoded ends at once, with no scrape, no adapter
\* call and no write: the file and every other file are as they were.
C17_RecordStoreLoad == [][C17_Step]_vars

C17_Witness ==
    /\ pc = "idle"
    /\ lastRun = "load_error"
    /\ disk.st = "torn"
    /\ written.st = "valid"
    /\ runs = 2

\* C18 (exit status): when the loop of a run has reached its end, the file
\* can be read for the summary, and the process, unless it is killed, ends
\* as finished, whatever number of records are "failed".
C18_ExitStatus ==
    /\ [](pc = "summary" => disk.st /= "torn")
    /\ [][(pc = "summary" /\ pc' = "idle") => lastRun' \in {"finished", "killed"}]_vars

C18_Witness ==
    /\ pc = "idle"
    /\ lastRun = "finished"
    /\ Len(disk.books) = 2
    /\ \A k \in DOMAIN disk.books : disk.books[k].status = "failed"

\* a step of reset_statuses
Resets == pc = "idle" /\ pc' = "idle" /\ runs' = runs /\ lastRun' = "reset"

C19_Step ==
    Resets =>
        /\ Len(disk'.books) = Len(disk.books)
        /\ \A k \in DOMAIN disk.books :
              LET old == disk.books[k]
                  new == disk'.books[k]
              IN  IF old.status \in {"failed", "in_progress"}
                  THEN /\ new.status = "pending"
                       /\ new.download_status = "pending"
                       /\ new.ocr_status = "pending"
                       /\ new.docx_conversion_status = "pending"
                       /\ new.error_message = None
                  ELSE new = old
        /\ (\A k \in DOMAIN disk.books :
                disk.books[k].status \notin {"failed", "in_progress"}) =>
              (disk' = disk /\ written' = written)

\* C19 (manual reset): reset_statuses makes every record that is "failed" or
\* "in_progress" a record with the overall status and the download, OCR and
\* conversion statuses "pending" and no error message; it leaves the records
\* that are "completed" or "pending" as they are, and leaves the file as it
\* is when it has no record to reset.
C19_ManualReset == [][C19_Step]_vars

C19_Witness ==
    /\ pc = "idle"
    /\ lastRun = "reset"
    /\ Len(disk.books) = 2
    /\ disk.books[1].status = "completed"
    /\ disk.books[2].status = "pending"
    /\ disk.books[2].ocr_status = "pending"
    /\ disk.books[2].pdf_sha256_hash /= None

\* C20 (replication error message): when the two copies of a book have
\* returned and one of them has failed, the error message of the record is
\* the one of the replication failure, whatever message it carried before.
C20_ReplicationMessage ==
    (TurnOver /\ invoked["copy_md"] = 1 /\ invoked["copy_docx"] = 1
        /\ failures["copy_md"] + failures["copy_docx"] > 0) =>
            mem[cur].error_message = "File copying to SD card failed."

\* C21 (in-progress marker): whenever the adapter of a stage (download,
\* OCR, conversion, copy to the SD card) is about to run or runs for a book,
\* the record store file is whole and shows that stage of the book and the
\* overall status as "in_progress".
C21_InProgressMarker ==
    \A s \in {"download", "ocr", "docx", "copy"} :
        pc = s =>
            /\ disk.st = "valid"
            /\ disk.books[cur][StageField(s)] = "in_progress"
            /\ disk.books[cur].status = "in_progress"

\* the same for the download, the OCR and the conversion alone
C21_MarkedBeforeAdapter ==
    \A s \in {"download", "ocr", "docx"} :
        pc = s =>
            /\ disk.st = "valid"
            /\ disk.books[cur][StageField(s)] = "in_progress"
            /\ disk.books[cur].status = "in_progress"

\* an attempt that did not succeed has used up one of the three: the loop
\* stays at the stage with the next attempt, or, after the third, the stage
\* and the book are "failed"
AttemptUsed(stage_pc, stage_field) ==
    IF attempt < 3
    THEN /\ attempt' = attempt + 1
         /\ pc' = stage_pc
         /\ mem' = mem
    ELSE /\ mem'[cur][stage_field] = "failed"
         /\ mem'[cur].status = "failed"

C22_Step ==
    /\ \A svc \in OcrOutcomes :
          OcrAttempt(svc) =>
              LET r == ocr_to_markdown(mem[cur].local_pdf_path, mem[cur].local_md_path,
                                       fs, svc)
                  reported == r.ret = "path"
                  there == Exists(fs', r.path)
              IN  /\ mem'[cur].ocr_status = "completed" <=> (reported /\ there)
                  /\ (reported /\ ~there) => AttemptUsed("ocr", "ocr_status")
    /\ \A tool \in ToolOutcomes :
          DocxAttempt(tool) =>
              LET r == process_markdown_to_docx(mem[cur].local_md_path,
                                                mem[cur].local_docx_path, fs, tool)
                  reported == r.ret = "True"
                  there == Exists(fs', mem[cur].local_docx_path)
              IN  /\ mem'[cur].docx_conversion_status = "completed" <=> (reported /\ there)
                  /\ (reported /\ ~there) => AttemptUsed("docx", "docx_conversion_status")

\* C22 (validated success): an attempt of the OCR or of the conversion marks
\* the stage "completed" exactly when the adapter has reported success and
\* its output file is there when the call returns; an attempt whose adapter
\* reports success while the file is missing is a failed attempt: it uses
\* up one of the three attempts.
C22_ValidatedSuccess == [][C22_Step]_vars

\* the third attempt of the conversion is due, the Markdown is there, and a
\* pandoc that exits with 0 and leaves no document makes the stage "failed"
C22_Witness ==
    /\ pc = "docx"
    /\ attempt = 3
    /\ failures["docx"] = 2
    /\ Exists(fs, mem[cur].local_md_path)
    /\ ENABLED (DocxAttempt("lost_output") /\ mem'[cur].docx_conversion_status = "failed")

\* the queue has been cut by --limit
CutByLimit(q, limit_books) ==
    limit_books /= NoLimit /\ limit_books[1] > 0 /\ Len(q) = limit_books[1]

C23_Step ==
    \* selection: a record that is "in_progress" or "failed" is in the queue,
    \* unless --limit has cut the queue before it
    /\ (pc = "select" /\ pc' \in {"begin_book", "summary"}) =>
          \A k \in DOMAIN mem :
              mem[k].status \in {"in_progress", "failed"} =>
                  \/ \E n \in DOMAIN queue' : queue'[n] = k
                  \/ CutByLimit(queue', limit) /\ k > queue'[Len(queue')]
    \* the turn of a book: a stage that is "completed" is passed over with no
    \* change of the record's statuses, one that is not is entered
    /\ (pc = "begin_book" /\ pc' /= "idle") =>
          IF mem[cur].download_status = "completed"
          THEN /\ pc' = "ocr_gate"
               /\ \A field \in StageFields \cup {"status"} : mem'[cur][field] = mem[cur][field]
          ELSE /\ pc' = "save" /\ ret' = "download"
               /\ mem'[cur].download_status = "in_progress"
    /\ (pc = "ocr_gate" /\ pc' /= "idle") =>
          IF mem[cur].ocr_status = "completed"
          THEN pc' = "docx_gate" /\ mem' = mem
          ELSE pc' = "save" /\ ret' \in {"ocr", "next_book"}
                  /\ mem'[cur].ocr_status \in {"in_progress", "failed"}
    /\ (pc = "docx_gate" /\ pc' /= "idle") =>
          IF mem[cur].docx_conversion_status = "completed"
          THEN pc' = "copy" /\ mem' = mem
          ELSE pc' = "save" /\ ret' \in {"docx", "next_book"}
                  /\ mem'[cur].docx_conversion_status \in {"in_progress", "failed"}
    \* no adapter of the download, the OCR or the conversion is called for a
    \* stage that is "completed"
    /\ \A s \in {"download", "ocr", "docx"} :
          Calls(s) => mem[cur][StageField(s)] = "in_progress"

\* C23 (resume of unfinished items): a run selects every record whose
\* overall status is "in_progress" or "failed" (unless --limit cuts the queue
\* before it), and in the turn of a book it passes over the stages that are
\* "completed" and enters the first stage that is not.
C23_ResumeUnfinished == [][C23_Step]_vars

\* a second run, started after a kill and with no reset in between, is at
\* the conversion of a book whose download and OCR were on file as
\* "completed": it has called neither the download nor the OCR adapter
C23_Witness ==
    /\ runs = 2
    /\ pc = "docx"
    /\ mem[cur].id \in resumed
    /\ invoked["download"] = 0
    /\ invoked["ocr"] = 0
    /\ mem[cur].download_status = "completed"
    /\ mem[cur].ocr_status = "completed"

\* what the scrape gives for a record
Metadata ==
    {"id", "title_kannada", "author_kannada", "title_english_slug",
     "author_english_slug", "pdf_url"}

\* C24 (persist before execute): when a run has scraped, the merged books
\* are in the record store file before the loop over the books begins, so
\* that whenever a stage adapter is about to be called the last finished
\* write holds every merged record; no adapter is called before or during
\* the scrape and its save; and a scrape that gives no item leaves the
\* books as they were loaded.
C24_PersistBeforeExecute ==
    /\ pc \in {"select", "begin_book"} => disk = ValidFile(mem)
    /\ pc \in {"download", "ocr", "docx", "copy"} =>
          /\ written.st = "valid"
          /\ Len(written.books) = Len(mem)
          /\ \A k \in DOMAIN mem :
                \A field \in Metadata : written.books[k][field] = mem[k][field]
    /\ (pc = "scrape" \/ Merged) => invoked = NoCalls
    /\ (Merged /\ scraped = <<>>) => mem = written.books

\* a run with rescan on a store of one book has inserted a second one and
\* is about to make its first adapter call, for the new book
C24_Witness ==
    /\ runs = 2
    /\ pc = "download"
    /\ invoked = NoCalls
    /\ Len(mem) = 2
    /\ mem[cur].id \in fresh
    /\ Cardinality(fresh) = 1
    /\ written.books[cur].download_status = "in_progress"

\* a run with rescan whose scrape gives nothing, on a store of two books
C24_EmptyScrape ==
    /\ Merged
    /\ scraped = <<>>
    /\ Len(written.books) = 2

C25_Step ==
    /\ \A limit_books \in Limits :
          (StartRun(limit_books, FALSE) /\ disk.st = "valid" /\ disk.books /= <<>>) =>
              /\ pc' = "select"
              /\ mem' = disk.books
              /\ disk' = disk
              /\ scraped' = <<>>
              /\ fresh' = {}
    /\ (pc = "select" /\ pc' /= "idle") =>
          /\ pc' \in {"begin_book", "summary"}
          /\ mem' = mem
          /\ disk' = disk

\* C25 (skipped scrape): a run started without rescan on a record store
\* that holds at least one record does not come to the scrape: it goes from
\* the load to the selection of the queue with the books as they are in the
\* file, and neither the load nor the selection changes a record or the
\* file.
C25_SkippedScrape == [][C25_Step]_vars

\* a second run is at the selection with the books as the first run has
\* left them: the first book completed, its paths joined to the script
\* directory, the second one failed
C25_Witness ==
    /\ runs = 2
    /\ pc = "select"
    /\ Len(mem) = 2
    /\ disk = ValidFile(mem)
    /\ mem[1].status = "completed"
    /\ mem[1].local_pdf_path.abs
    /\ mem[2].status = "failed"
    /\ mem[2].local_pdf_path.abs

\* the download stage of the book the loop is at has ended with success
Downloaded == pc' = "save" /\ ret' = "ocr_gate" /\ mem'[cur].download_status = "completed"

\* the attempt has failed and the loop is at the next attempt, or the stage
\* is "failed"
NotDownloaded ==
    \/ pc' = "download" /\ attempt' = attempt + 1
    \/ pc' = "save" /\ ret' = "next_book" /\ mem'[cur].download_status = "failed"

\* what a fetch leaves at the path, after whatever was there is out of the
\* way: the whole document and success, nothing or a part of it and failure,
\* or the end of the process
Fetched(net, path) ==
    CASE net = "ok" ->
            /\ Downloaded
            /\ Exists(fs', path)
            /\ fs'[FileKey(path)] = "good"
      [] net = "http_error" -> NotDownloaded /\ ~Exists(fs', path)
      [] net = "broken_stream" ->
            /\ NotDownloaded
            /\ Exists(fs', path)
            /\ fs'[FileKey(path)] = "partial"
      [] OTHER -> pc' = "idle" /\ ~Exists(fs', path)

C26_Step ==
    \A net \in NetOutcomes :
        DownloadAttempt(net) =>
            LET path == mem[cur].local_pdf_path
                recorded == mem[cur].pdf_sha256_hash
                here == Exists(fs, path)
                hash == calculate_sha256(fs, path)
            IN  \* verified: success whatever the network does, no file touched
                /\ (here /\ recorded /= None /\ hash = recorded) =>
                      /\ Downloaded
                      /\ fs' = fs
                      /\ mem'[cur].pdf_sha256_hash = recorded
                \* corrupt: the file is removed and the document fetched
                /\ (here /\ recorded /= None /\ hash /= recorded) => Fetched(net, path)
                \* missing: the document is fetched
                /\ ~here => Fetched(net, path)

\* C26 (download reuse and verification): in a download attempt a local
\* file whose hash is the recorded one makes the attempt succeed with no
\* fetch (whatever the network would do, and with no file changed); a local
\* file whose hash differs from the recorded one is removed and the document
\* is fetched; a missing file is fetched.
C26_ReuseAndVerify == [][C26_Step]_vars

\* a download attempt is due for a book whose local PDF is cut short while a
\* hash is recorded; a fetch that fails leaves no file
C26_CorruptPdfDue ==
    /\ pc = "download"
    /\ attempt = 1
    /\ mem[cur].pdf_sha256_hash = Sha256("good")
    /\ Exists(fs, mem[cur].local_pdf_path)
    /\ fs[FileKey(mem[cur].local_pdf_path)] = "partial"
    /\ ENABLED (DownloadAttempt("http_error") /\ ~Exists(fs', mem[cur].local_pdf_path))

\* the download of a book for which a hash was on record has ended with
\* success at the second attempt: the first attempt has found no file with
\* that hash and its fetch has failed
C26_Witness ==
    /\ pc = "save"
    /\ ret = "ocr_gate"
    /\ invoked["download"] = 2
    /\ failures["download"] = 1
    /\ written.books[cur].pdf_sha256_hash = Sha256("good")
    /\ mem[cur].pdf_sha256_hash = Sha256("good")
    /\ Exists(fs, mem[cur].local_pdf_path)
    /\ fs[FileKey(mem[cur].local_pdf_path)] = "good"

\* the OCR stage is due and the raw PDF is there with a hash that is not
\* the recorded one
CorruptBeforeOcr ==
    /\ pc = "ocr_gate"
    /\ mem[cur].ocr_status /= "completed"
    /\ mem[cur].pdf_sha256_hash /= None
    /\ Exists(fs, mem[cur].local_pdf_path)
    /\ calculate_sha256(fs, mem[cur].local_pdf_path) /= mem[cur].pdf_sha256_hash

\* C27 (corrupt artifact at a later stage): the step of the OCR gate that
\* finds the raw PDF with a hash that is not the recorded one removes the
\* file, so that a later run fetches it again.
C27_CorruptRawDeleted ==
    [][(CorruptBeforeOcr /\ pc' = "save") => ~Exists(fs', mem[cur].local_pdf_path)]_vars

\* two runs have finished, and the book is as before them: the download is
\* "completed", the OCR and the book are "failed", the PDF is still the one
\* that is cut short
C27_FailedOnEveryRun ==
    /\ runs = 2
    /\ pc = "idle"
    /\ lastRun = "finished"
    /\ disk.st = "valid"
    /\ disk.books[1].download_status = "completed"
    /\ disk.books[1].ocr_status = "failed"
    /\ disk.books[1].status = "failed"
    /\ calculate_sha256(fs, disk.books[1].local_pdf_path) = Sha256("partial")
    /\ disk.books[1].pdf_sha256_hash = Sha256("good")

C28_Step ==
    \A net \in NetOutcomes :
        DownloadAttempt(net) =>
            LET path == mem[cur].local_pdf_path
            IN  (Exists(fs, path) /\ mem[cur].pdf_sha256_hash = None) =>
                    /\ Downloaded
                    /\ fs' = fs
                    /\ mem'[cur].pdf_sha256_hash = Sha256(fs[FileKey(path)])

C29_Step ==
    \* the download status of a record becomes "completed"
    /\ RunStep =>
          \A k \in DOMAIN mem, j \in DOMAIN mem' :
              ( /\ mem[k].id = mem'[j].id
                /\ mem[k].download_status /= "completed"
                /\ mem'[j].download_status = "completed" ) =>
                    /\ mem'[j].pdf_sha256_hash /= None
                    /\ Exists(fs', mem'[j].local_pdf_path)
                    /\ mem'[j].pdf_sha256_hash =
                          Sha256(fs'[FileKey(mem'[j].local_pdf_path)])
    \* the OCR, the conversion and the copies leave the hash as it is
    /\ (pc \in {"ocr_gate", "ocr", "docx_gate", "docx", "copy"} /\ pc' /= "idle") =>
          mem'[cur].pdf_sha256_hash = mem[cur].pdf_sha256_hash

\* C29 (fingerprint at download completion): in the step in which the
\* download status of a record becomes "completed" the record has a hash,
\* and it is the hash of the file that is at its local PDF path after the
\* step; no step of the OCR, the conversion or the copy stage changes the
\* hash of the record.
C29_Fingerprint == [][C29_Step]_vars

\* the turn of a book has ended with one call of each adapter and none
\* failed: the download has become "completed" in this turn, the later
\* stages have run, and the hash on record is that of the file
C29_Witness ==
    /\ pc = "next_book"
    /\ \A s \in Stages : invoked[s] = 1
    /\ failures = NoCalls
    /\ mem[cur].status = "completed"
    /\ mem[cur].pdf_sha256_hash = Sha256("good")
    /\ calculate_sha256(fs, mem[cur].local_pdf_path) = mem[cur].pdf_sha256_hash

C30_Step ==
    \* the OCR succeeds: the record takes the path the adapter returns
    /\ \A svc \in OcrOutcomes :
          (OcrAttempt(svc) /\ pc' = "save" /\ ret' = "docx_gate") =>
              /\ mem'[cur].ocr_status = "completed"
              /\ mem'[cur].local_md_path =
                    ocr_to_markdown(mem[cur].local_pdf_path, mem[cur].local_md_path,
                                    fs, svc).path
              /\ Exists(fs', mem'[cur].local_md_path)
    \* from there to the end of the turn the text path of the record stays
    /\ (pc \in {"docx_gate", "docx", "copy"} /\ pc' /= "idle") =>
          mem'[cur].local_md_path = mem[cur].local_md_path
    \* the conversion is refused exactly when no file is at that path
    /\ (pc = "docx_gate" /\ pc' = "save") =>
          (ret' = "next_book" <=> ~Exists(fs, mem[cur].local_md_path))
    \* the converter is called on that path
    /\ \A tool \in ToolOutcomes :
          DocxAttempt(tool) =>
              fs' = process_markdown_to_docx(mem[cur].local_md_path,
                                             mem[cur].local_docx_path, fs, tool).fs
    \* the text that is copied to the SD card is the file at that path, under
    \* its name
    /\ (pc = "copy" /\ pc' = "save" /\ failures'["copy_md"] = failures["copy_md"]) =>
          LET src == mem[cur].local_md_path
              dst == [root |-> SDCARD_PROCESSED_DOCS_DIR, id |-> mem[cur].id,
                      stem |-> src.stem, ext |-> src.ext]
          IN  /\ Exists(fs, src)
              /\ dst \in DOMAIN fs'
              /\ fs'[dst] = fs[FileKey(src)]

\* C30 (adapter path is authoritative): when the OCR of a book succeeds the
\* text path of the record is the path the OCR adapter has returned; it
\* stays so to the end of the turn, and the check before the conversion, the
\* call of the converter and the copy of the text to the SD card all take
\* the file at that path.
C30_AdapterPath == [][C30_Step]_vars

\* the turn of a book has ended: its OCR has run once in this turn and
\* succeeded, the conversion has run, and the text on the SD card is the
\* one at the text path of the record
C30_Witness ==
    /\ pc = "next_book"
    /\ invoked["ocr"] = 1
    /\ failures["ocr"] = 0
    /\ invoked["docx"] > 0
    /\ invoked["copy_md"] = 1
    /\ failures["copy_md"] = 0
    /\ mem[cur].local_md_path.abs
    /\ Exists(fs, mem[cur].local_md_path)
    /\ Exists(fs, SdPath(mem[cur].local_md_path, SDCARD_PROCESSED_DOCS_DIR, mem[cur].id))

\* ------------------------------------------------------------------- C31
\* C31 (as claimed): the paths persisted in the record store are the relative
\* paths computed at merge time: no record of the file holds a path that has
\* been joined to the script directory, so the persisted paths of a book are
\* the same before and after its turn.
\* Lines 226-228 assign the joined paths into the dictionary of the book,
\* which is an element of current_state['books']: the first save_state of
\* the turn (line 236) writes them to the file.
C31_StoredPathsRelative ==
    \A k \in DOMAIN disk.books :
        /\ ~disk.books[k].local_pdf_path.abs
        /\ ~disk.books[k].local_md_path.abs
        /\ ~disk.books[k].local_docx_path.abs

\* ------------------------------------------------------------------- C32
\* the raw PDF of the book the loop is at is on the SD card
RawOnCard(f) ==
    Exists(f, SdPath(mem[cur].local_pdf_path, SDCARD_RAW_PDF_DIR, mem[cur].id))

\* a copy of `source` that is made with the outcome cp returns True
Copies(source, cp) == cp = "ok" /\ Exists(fs, source)

\* C32: in the copy stage the raw PDF is copied only when the SD card has
\* none: a raw PDF that is there is left as it is and copy_to_phone_storage is
\* not called for it (an error it would raise cannot happen), one that is not
\* there is there after a copy that succeeds; and when the three copies have
\* returned, copy_to_sdcard_status and status are "completed" exactly when the
\* Markdown copy and the DOCX copy succeeded, "failed" otherwise, whatever the
\* raw copy did.
C32_Step ==
    \A cp_raw \in CpOutcomes, cp_md \in CpOutcomes, cp_docx \in CpOutcomes :
        Replicate(cp_raw, cp_md, cp_docx) =>
            LET book == mem[cur]
                raw_dest == SdPath(book.local_pdf_path, SDCARD_RAW_PDF_DIR, book.id)
                both == /\ Copies(book.local_md_path, cp_md)
                        /\ Copies(book.local_docx_path, cp_docx)
                outcome == IF both THEN "completed" ELSE "failed"
            IN  /\ RawOnCard(fs) =>
                      /\ fs'[FileKey(raw_dest)] = fs[FileKey(raw_dest)]
                      /\ (cp_md /= "os_error" /\ cp_docx /= "os_error") => pc' = "save"
                /\ (~RawOnCard(fs) /\ Copies(book.local_pdf_path, cp_raw)) =>
                      /\ Exists(fs', raw_dest)
                      /\ fs'[FileKey(raw_dest)] = fs[FileKey(book.local_pdf_path)]
                /\ pc' = "save" =>
                      /\ ret' = "next_book"
                      /\ mem'[cur].copy_to_sdcard_status = outcome
                      /\ mem'[cur].status = outcome

C32_BestEffortRawCopy == [][C32_Step]_vars

\* the copy stage of a book has ended "completed" and the SD card has no raw
\* PDF of it: the raw copy was made and failed
C32_Witness ==
    /\ pc = "save"
    /\ ret = "next_book"
    /\ mem[cur].copy_to_sdcard_status = "completed"
    /\ mem[cur].status = "completed"
    /\ ~RawOnCard(fs)

\* the copy stage of a book is due in a later run and the SD card has the raw
\* PDF that an earlier run has put there: no raw copy is made
C32_RawOnCard ==
    /\ pc = "copy"
    /\ runs = 2
    /\ RawOnCard(fs)

\* ------------------------------------------------------------------- C33
\* C33: when the loop of a run has ended, the three counts of the summary,
\* taken of the books that the file holds at that moment, add up to the
\* number of books of the file: every book is counted once, a book that is
\* "in_progress" as pending.
C33_FinalSummary ==
    (pc = "summary" /\ disk.st /= "torn") =>
        /\ processed_count(disk.books) + failed_count(disk.books)
              + pending_count(disk.books) = Len(disk.books)
        /\ pending_count(disk.books) >=
              Cardinality({k \in DOMAIN disk.books :
                              disk.books[k].status = "in_progress"})

\* the loop of a run has ended and the file holds a book that is
\* "in_progress", which a run killed earlier has left and the limit has kept
\* out of this run, next to a book this run has decided
C33_Witness ==
    /\ pc = "summary"
    /\ disk.st = "valid"
    /\ \E k \in DOMAIN disk.books : disk.books[k].status = "in_progress"
    /\ \E k \in DOMAIN disk.books : disk.books[k].status \in {"completed", "failed"}
    /\ pending_count(disk.books) = 1

\* ------------------------------------------------------------------- C34
\* C34: no save_state of a run reads the file before it writes: entering
\* save_state empties the file whatever another writer has left in it, and
\* when save_state returns the file holds the books of the memory of the run,
\* every record of them, so that a record another writer has changed since
\* the save before is as the run holds it again.
C34_Step ==
    /\ (pc /= "save" /\ pc' = "save") => disk' = TornFile
    /\ (pc = "save" /\ pc' /= "save") =>
          /\ mem' = mem
          /\ disk'.st = "valid"
          /\ DOMAIN disk'.books = DOMAIN mem
          /\ \A k \in DOMAIN mem : disk'.books[k] = mem[k]

C34_LostUpdate == [][C34_Step]_vars

\* reset_statuses has rewritten the file during the run (it has put at least
\* one record back to "pending"), a save_state of the run has returned since,
\* and the file is the memory of the run again with no record "pending": the
\* loop is at its second book, the first is "failed" as before the reset
C34_Witness ==
    /\ pc = "download"
    /\ qi = 2
    /\ lastRun = "reset"
    /\ disk = ValidFile(mem)
    /\ mem[queue[1]].status = "failed"
    /\ \A k \in DOMAIN disk.books : disk.books[k].status /= "pending"

\* reset_statuses has just rewritten the file during the run: the file and
\* the memory of the run differ in a record the loop is not at
C34_Diverged ==
    /\ pc = "next_book"
    /\ qi = 1
    /\ Len(queue) = 2
    /\ lastRun = "reset"
    /\ disk.st = "valid"
    /\ disk.books[queue[1]].status = "pending"
    /\ mem[queue[1]].status = "failed"

\* ------------------------------------------------------------------- C35
\* the chunk files of the call: the chunk PDFs and the Markdown files of the
\* chunks
ChunkFiles(f) ==
    {k \in DOMAIN f : \E x \in DOMAIN k.stem, n \in 1..MaxPages :
                          k.stem[x] = "_part_" \o ToString(n)}

\* C35 (as claimed): when ocr_to_markdown has returned, with a path or with
\* None, no chunk PDF and no Markdown file of a chunk is left.
\* After a chunk that fails, lines 262-269 remove the chunk PDFs and line 269
\* returns None; the Markdown files of the chunks before it are removed in
\* the merge loop only (line 279), which is not reached.
C35_NoChunkFileLeft == ocr.at = "returned" => ChunkFiles(fs) = {}

\* the same for the calls in which the split has made every chunk PDF
C35_NoChunkFileLeftAfterSplit ==
    (ocr.at = "returned" /\ ocr.chunk_pdf_paths /= <<>>) => ChunkFiles(fs) = {}

\* what does hold of the chunked call: a chunk that fails ends the loop and
\* the call returns None with output_md_path as it was, no chunk PDF is left
\* after the loop, and a call that returns the path leaves no chunk file
C35_Step ==
    /\ (\E svc \in ChunkOutcomes : OcrChunk(svc)) /\ ~ocr'.overall_success
          => ocr'.at = "cleanup"
    /\ (ChunkCleanup /\ ~ocr.overall_success) =>
          /\ ocr'.at = "returned"
          /\ ocr'.ret = "none"
          /\ Exists(fs', ocr.output_md_path) = Exists(fs, ocr.output_md_path)
          /\ Exists(fs, ocr.output_md_path) =>
                fs'[FileKey(ocr.output_md_path)] = fs[FileKey(ocr.output_md_path)]
    /\ ChunkCleanup =>
          \A k \in DOMAIN ocr.chunk_pdf_paths : ~Exists(fs', ocr.chunk_pdf_paths[k])
    /\ (ocr'.at = "returned" /\ ocr'.ret = "path") => ChunkFiles(fs') = {}

C35_FailsAsAWhole == [][C35_Step]_vars

\* ------------------------------------------------------------------- C36
\* the stage fields in the order of the stages
StageOrder ==
    <<"download_status", "ocr_status", "docx_conversion_status", "copy_to_sdcard_status">>

\* a stage of the book is entered, done or failed only with every stage
\* before it completed
InStageOrder(book) ==
    \A n \in DOMAIN StageOrder :
        book[StageOrder[n]] \in {"in_progress", "completed", "failed"} =>
            \A m \in 1..(n - 1) : book[StageOrder[m]] = "completed"

\* C36 (as claimed): in every state of the file that runs, rescans and
\* resets reach, the stage statuses of every record are in the order of the
\* stages.
\* reset_statuses puts download_status, ocr_status and
\* docx_conversion_status of a failed book back to "pending" and leaves
\* copy_to_sdcard_status as it is (update_state.py lines 57-60).
C36_StageOrder ==
    \A k \in DOMAIN disk.books : InStageOrder(disk.books[k])

\* ------------------------------------------------------------------- C37
\* the loop of the run has ended with every book of the queue taken up
LoopEnded == pc = "summary" /\ (queue = <<>> \/ qi = Len(queue))

\* C37: when every adapter call returns, no retried stage of a book is
\* called more than 3 times, and a run that has started comes to the end of
\* its loop with every book of the queue taken up, and then to its end.
C37_Termination ==
    /\ [](\A s \in {"download", "ocr", "docx"} : invoked[s] <= 3)
    /\ (pc /= "idle") ~> LoopEnded
    /\ LoopEnded ~> (pc = "idle" /\ lastRun = "finished")

\* the loop of a run has ended after two books, one of them failed with its
\* attempts used up and one completed
C37_Witness ==
    /\ LoopEnded
    /\ Len(queue) = 2
    /\ \E k \in DOMAIN mem :
          /\ mem[k].status = "failed"
          /\ mem[k].error_message = "PDF download failed after multiple retries."
    /\ \E k \in DOMAIN mem : mem[k].status = "completed"

\* ------------------------------------------------------------------- C38
\* no limit has cut the queue of the run: every book that is not in it was
\* "completed" when the run selected its books (a run does not touch a book
\* that is not in its queue)
QueueUncut == \A k \in DOMAIN mem : ~InQueue(k) => mem[k].status = "completed"

\* C38: when the loop of a run whose queue no limit has cut has ended, every
\* record of the file is "completed" or "failed": none is "pending" or
\* "in_progress".
C38_RunDecides ==
    (pc = "summary" /\ QueueUncut) =>
        /\ disk.st = "valid"
        /\ DOMAIN disk.books = DOMAIN mem
        /\ \A k \in DOMAIN disk.books : disk.books[k].status \in {"completed", "failed"}

\* the loop of a second run without limit has ended on a store of two books,
\* one of them failed and one completed by this run after a kill of the first
C38_Witness ==
    /\ pc = "summary"
    /\ runs = 2
    /\ Len(queue) = 2
    /\ QueueUncut
    /\ \E k \in DOMAIN disk.books : disk.books[k].status = "failed"
    /\ \E k \in DOMAIN disk.books : disk.books[k].status = "completed"

\* ------------------------------------------------------------------- C39
\* C39: in every state of the file, and of the memory of a run, a record
\* whose status is "failed" has an error_message that is a text.
C39_FailedHasMessage ==
    /\ \A k \in DOMAIN disk.books :
          disk.books[k].status = "failed" =>
              disk.books[k].error_message \notin {None, ""}
    /\ \A k \in DOMAIN mem :
          mem[k].status = "failed" => mem[k].error_message \notin {None, ""}

\* a second run has left in the file a record that a copy to the SD card
\* has failed, with the text line 385 gives to a record that has none
C39_Witness ==
    /\ disk.st = "valid"
    /\ runs = 2
    /\ \E k \in DOMAIN disk.books :
          /\ disk.books[k].status = "failed"
          /\ disk.books[k].copy_to_sdcard_status = "failed"
          /\ disk.books[k].error_message = "File copying to SD card failed."
    /\ written = disk

\* ------------------------------------------------------------------- C40
\* C40 (as claimed): in every state of the file a record whose status is
\* "completed" has no error_message.
\* No stage removes or overwrites error_message when it succeeds: lines
\* 243-247, 286-301, 341-352 and 378-381 set the statuses only, and a book
\* that failed in one run and is completed by a later one keeps the text of
\* the failure.
C40_CompletedHasNoMessage ==
    \A k \in DOMAIN disk.books :
        disk.books[k].status = "completed" => disk.books[k].error_message = None

====
